---- MODULE Spec2Model ----
(***************************************************************************)
(* Model of the code-map generator of skills/code-mapping:                 *)
(*   generate/parser.py, generate/renderer.py, generate/templates.py,      *)
(*   generate/models.py, generate/generator.py and the `generate` command  *)
(*   of code_map.py.                                                       *)
(*                                                                         *)
(* Text is a sequence of tokens (strings); a document is a sequence of     *)
(* lines, each line a text.  An optional value is a sequence of length 0   *)
(* (None / no file) or 1 (the value).  Paths are sequences of components.  *)
(***************************************************************************)
EXTENDS Integers, Sequences, FiniteSets, TLC

VARIABLES src, map, mapDirs, last, succ

vars == <<src, map, mapDirs, last, succ>>

(***************************************************************************)
(* Bounds of the model.                                                    *)
(***************************************************************************)
\* highest declaration line a function of ops.py can be moved to
MaxLine == 2

\* lines of a module document a person may rewrite
MaxDocLines == 18

\* cap of the counter of consecutive non-dry generate runs
MaxSucc == 2

(***************************************************************************)
(* Optional values.                                                        *)
(***************************************************************************)
None == <<>>

Some(x) == <<x>>

IsNone(o) == Len(o) = 0

Val(o) == o[1]

\* the element of a one-element set: TheOne({F(v) : v \in {e}}) is F(e) with e
\* evaluated once
TheOne(S) == CHOOSE y \in S : TRUE

(***************************************************************************)
(* Text helpers (Python str methods on token sequences).                   *)
(***************************************************************************)
IsSpace(t) == t \in {" ", "\n"}

StartsWith(s, p) == Len(s) >= Len(p) /\ SubSeq(s, 1, Len(p)) = p

EndsWith(s, p) == Len(s) >= Len(p) /\ SubSeq(s, Len(s) - Len(p) + 1, Len(s)) = p

RECURSIVE LStrip(_)
LStrip(s) == IF s # <<>> /\ IsSpace(Head(s)) THEN LStrip(Tail(s)) ELSE s

RECURSIVE RStrip(_)
RStrip(s) ==
    IF s # <<>> /\ IsSpace(s[Len(s)]) THEN RStrip(SubSeq(s, 1, Len(s) - 1)) ELSE s

Strip(s) == RStrip(LStrip(s))

\* text.split("\n")[0]
RECURSIVE FirstLine(_)
FirstLine(s) ==
    IF s = <<>> \/ Head(s) = "\n" THEN <<>> ELSE <<Head(s)>> \o FirstLine(Tail(s))

\* bool(text) for an optional text: None and "" are falsy
Truthy(o) == ~IsNone(o) /\ Val(o) # <<>>

(***************************************************************************)
(* renderer.py                                                             *)
(***************************************************************************)
PLACEHOLDER_PREFIX == <<"<!--", " ", "TODO:", " ">>

PLACEHOLDER_SUFFIX == <<" ", "-->">>

make_placeholder(hint) == PLACEHOLDER_PREFIX \o hint \o PLACEHOLDER_SUFFIX

is_placeholder(text) ==
    LET stripped == Strip(text)
    IN  StartsWith(stripped, PLACEHOLDER_PREFIX) /\ EndsWith(stripped, PLACEHOLDER_SUFFIX)

RECURSIVE CommonLen(_, _)
CommonLen(a, b) ==
    IF a # <<>> /\ b # <<>> /\ Head(a) = Head(b)
    THEN 1 + CommonLen(Tail(a), Tail(b))
    ELSE 0

Parent(p) == SubSeq(p, 1, Len(p) - 1)

\* compute_relative_path climbing from the map file instead of its directory
compute_relative_pathFromFile(from_map, to_src) ==
    LET common_len == CommonLen(from_map, to_src)
        ups == Len(from_map) - common_len
    IN  [i \in 1..ups |-> ".."] \o SubSeq(to_src, common_len + 1, Len(to_src))

\* the result is the sequence of segments that "/".join glues together
compute_relative_path(from_map, to_src) ==
    LET from_parts == Parent(from_map)
    IN  IF StartsWith(to_src, from_parts)
        THEN SubSeq(to_src, Len(from_parts) + 1, Len(to_src))
        ELSE LET common_len == CommonLen(from_parts, to_src)
                 ups == Len(from_parts) - common_len
             IN  [i \in 1..ups |-> ".."] \o SubSeq(to_src, common_len + 1, Len(to_src))

(***************************************************************************)
(* The file systems.  src_dir holds the source files SrcFiles (paths       *)
(* relative to src_dir); a file is None (absent) or Some of its syntax     *)
(* tree [parses, doc, body]: body is the sequence of the module's direct   *)
(* child nodes [type, name, lineno, doc, sig, body].                       *)
(***************************************************************************)
src_dir == <<"/", "proj", "src", "calculator">>

map_dir == <<"/", "proj", "docs", "map">>

InitPy == <<"a", "__init__.py">>

UtilA == <<"a", "util.py">>

UtilB == <<"b", "util.py">>

Broken == <<"broken.py">>

Ops == <<"ops.py">>

\* sorted(src_dir.glob("**/*.py")) enumerates the files in this order
SortedUniverse == <<InitPy, UtilA, UtilB, Broken, Ops>>

SrcFiles == {SortedUniverse[i] : i \in DOMAIN SortedUniverse}

\* Path.name and Path.stem
Name(p) == p[Len(p)]

Stem(p) ==
    CASE Name(p) = "__init__.py" -> "__init__"
      [] Name(p) = "util.py" -> "util"
      [] Name(p) = "ops.py" -> "ops"
      [] Name(p) = "broken.py" -> "broken"
      [] Name(p) = "core.py" -> "core"
      [] OTHER -> Name(p)

Node(type, name, lineno, doc, sig, body) ==
    [type |-> type, name |-> name, lineno |-> lineno, doc |-> doc, sig |-> sig,
     body |-> body]

DocAdd == <<"Add two numbers.">>

DocLong == <<"Sum two values.", "\n", "\n", "More details.">>

\* docstrings divide can carry: none, or a summary line and more
Docs == {None, Some(DocLong)}

\* ops.py declares add at line 1; divide, when declared, is at one of these lines
DivideLines == 2..(1 + MaxLine)

AddNode == Node("def", "add", 1, Some(DocAdd), "(a, b)", <<>>)

DivideNode(line, doc) == Node("async def", "divide", line, doc, "(a, b)", <<>>)

InitPyTree ==
    [parses |-> TRUE, doc |-> None,
     body |-> <<Node("def", "setup", 1, None, "()", <<>>)>>]

UtilATree ==
    [parses |-> TRUE, doc |-> None,
     body |-> <<Node("assign", "VERSION", 1, None, "", <<>>),
                Node("class", "Calc", 2, Some(<<"A calculator.">>), "",
                     <<Node("assign", "precision", 3, None, "", <<>>),
                       Node("def", "add", 4, None, "(self, a, b)", <<>>)>>)>>]

UtilBTree ==
    [parses |-> TRUE, doc |-> Some(<<"Runner.">>),
     body |-> <<Node("def", "run", 1, None, "()", <<>>)>>]

\* a file that does not parse (SyntaxError)
BrokenTree == [parses |-> FALSE, doc |-> None, body |-> <<>>]

OpsTree(body) == [parses |-> TRUE, doc |-> Some(<<"Basic arithmetic operations.">>),
                  body |-> body]

(***************************************************************************)
(* models.py                                                               *)
(***************************************************************************)
ExtractedSymbol(name, kind, line, parent, docstring, signature) ==
    [name |-> name, kind |-> kind, line |-> line, parent |-> parent,
     docstring |-> docstring, signature |-> signature]

Section(symbol_name, symbol_kind, line_number, description, is_ph) ==
    [symbol_name |-> symbol_name, symbol_kind |-> symbol_kind,
     line_number |-> line_number, description |-> description,
     is_placeholder |-> is_ph]

MapFile(source_path, map_path, file_description, file_description_is_placeholder, sections) ==
    [source_path |-> source_path, map_path |-> map_path,
     file_description |-> file_description,
     file_description_is_placeholder |-> file_description_is_placeholder,
     sections |-> sections]

\* the fields the dataclass declares; unfilled_placeholders is not one of them
ChangeReportFields ==
    {"created_files", "updated_files", "deleted_files", "new_sections",
     "removed_sections", "missing_docstrings", "missing_descriptions"}

ChangeReport ==
    [created_files |-> <<>>, updated_files |-> <<>>, deleted_files |-> <<>>,
     new_sections |-> <<>>, removed_sections |-> <<>>, missing_docstrings |-> <<>>,
     missing_descriptions |-> <<>>]

(***************************************************************************)
(* parser.py                                                               *)
(***************************************************************************)
RECURSIVE Concat(_)
Concat(ss) == IF ss = <<>> THEN <<>> ELSE Head(ss) \o Concat(Tail(ss))

IsDef(n) == n.type \in {"def", "async def"}

MethodsOf(cls) ==
    LET defs == SelectSeq(cls.body, IsDef)
    IN  [i \in 1..Len(defs) |->
            ExtractedSymbol(defs[i].name, "method", defs[i].lineno, Some(cls.name),
                            defs[i].doc, Some(defs[i].sig))]

SymbolsOfNode(n) ==
    IF IsDef(n)
    THEN <<ExtractedSymbol(n.name, "function", n.lineno, None, n.doc, Some(n.sig))>>
    ELSE IF n.type = "class"
    THEN <<ExtractedSymbol(n.name, "class", n.lineno, None, n.doc, None)>> \o MethodsOf(n)
    ELSE <<>>

extract_symbols(file) ==
    IF IsNone(file) THEN <<>>
    ELSE IF ~Val(file).parses THEN <<>>
    ELSE Concat([i \in 1..Len(Val(file).body) |-> SymbolsOfNode(Val(file).body[i])])

extract_module_docstring(file) ==
    IF IsNone(file) THEN None
    ELSE IF ~Val(file).parses THEN None
    ELSE Val(file).doc

(***************************************************************************)
(* File-system helpers.  A file system is a function from the paths of the *)
(* existing files to their contents; a document is the sequence of lines   *)
(* that text.split("\n") yields, so a text that ends with a newline has an *)
(* empty last element.                                                     *)
(***************************************************************************)
Exists(fs, p) == p \in DOMAIN fs

\* a write that appends to the file it finds
WriteTextAppending(fs, p, content) ==
    [q \in (DOMAIN fs) \cup {p} |->
        IF q = p THEN (IF p \in DOMAIN fs THEN fs[p] \o content ELSE content) ELSE fs[q]]

WriteText(fs, p, content) ==
    [q \in (DOMAIN fs) \cup {p} |-> IF q = p THEN content ELSE fs[q]]

Remove(fs, p) == [q \in (DOMAIN fs) \ {p} |-> fs[q]]

\* the directories mkdir(parents=True) creates for a directory path
RECURSIVE Ancestors(_)
Ancestors(d) == IF d = <<>> THEN {<<>>} ELSE {d} \cup Ancestors(Parent(d))

\* "/".join(parts) as a text
RECURSIVE Join(_)
Join(parts) ==
    IF parts = <<>> THEN <<>>
    ELSE IF Len(parts) = 1 THEN parts
    ELSE <<Head(parts), "/">> \o Join(Tail(parts))

\* text.replace(pat, "")
RECURSIVE RemoveAll(_, _)
RemoveAll(s, pat) ==
    IF s = <<>> THEN <<>>
    ELSE IF StartsWith(s, pat) THEN RemoveAll(SubSeq(s, Len(pat) + 1, Len(s)), pat)
    ELSE <<Head(s)>> \o RemoveAll(Tail(s), pat)

Blank == <<>>

IsBlankLine(l) == Strip(l) = <<>>

\* str.rstrip() of a document: trailing blank lines and trailing whitespace go
RECURSIVE RStripDoc(_)
RStripDoc(d) ==
    IF d = <<>> THEN <<>>
    ELSE IF IsBlankLine(d[Len(d)]) THEN RStripDoc(SubSeq(d, 1, Len(d) - 1))
    ELSE SubSeq(d, 1, Len(d) - 1) \o <<RStrip(d[Len(d)])>>

(***************************************************************************)
(* templates.py.  A template is a sequence of items: a literal line or a   *)
(* ${key} marker on a line of its own; a substitution is a sequence of     *)
(* lines.                                                                  *)
(***************************************************************************)
Lit(line) == [slot |-> FALSE, key |-> "", line |-> line]

Slot(key) == [slot |-> TRUE, key |-> key, line |-> <<>>]

load_template(name) ==
    CASE name = "README.md" ->
            <<Slot("project_name"), Lit(Blank), Slot("project_description"), Lit(Blank),
              Lit(<<"| Domain | File | Description |">>), Slot("domains_table"), Lit(Blank)>>
      [] name = "ARCHITECTURE.md" ->
            <<Slot("project_name"), Lit(Blank), Lit(<<"## Domains">>),
              Slot("domains_table"), Lit(Blank), Lit(<<"## Entry points">>), Lit(Blank)>>
      [] name = "module.md" ->
            <<Slot("module_id"), Slot("module_name"), Lit(Blank),
              Slot("module_description"), Lit(Blank), Slot("components"), Lit(Blank)>>
      [] name = "domain.md" ->
            <<Slot("domain_id"), Slot("domain_name"), Lit(Blank),
              Slot("domain_description"), Lit(Blank), Slot("modules_table"), Lit(Blank),
              Slot("dependencies"), Lit(Blank)>>

render_template(name, kwargs) ==
    LET template == load_template(name)
        substituted ==
            Concat([i \in 1..Len(template) |->
                      IF template[i].slot THEN kwargs[template[i].key]
                      ELSE <<template[i].line>>])
    IN  RStripDoc(substituted) \o <<Blank>>

(***************************************************************************)
(* generator.py: the renderers.  The docstrings of the model hold no       *)
(* "Args:" or "Raises:" section, so _parse_docstring_sections returns      *)
(* empty lists and no parameter table is emitted.                          *)
(***************************************************************************)
SourceModule(source_path, symbols) == [source_path |-> source_path, symbols |-> symbols]

Domain(name, domain_id, description, modules) ==
    [name |-> name, domain_id |-> domain_id, description |-> description,
     modules |-> modules]

MdName(stem) ==
    CASE stem = "ops" -> "ops.md"
      [] stem = "util" -> "util.md"
      [] stem = "__init__" -> "__init__.md"
      [] stem = "broken" -> "broken.md"
      [] stem = "core" -> "core.md"
      [] stem = "calculator" -> "calculator.md"
      [] OTHER -> stem

\* Path("modules") / domain_id / f"{module.source_path.stem}.md"
ModulePath(module, domain_id) == <<"modules", domain_id, MdName(Stem(module.source_path))>>

\* the backquote character, which a TLA+ string cannot hold
BT == "'"

\* f"[Source]({rel_src}#L{line})"
SourceLink(rel_src, line) ==
    <<"[", "Source", "]", "(">> \o Join(rel_src) \o <<"#", "L", ToString(line), ")">>

\* the summary line of a symbol: first docstring line, else a placeholder
SummaryLine(sym) ==
    IF Truthy(sym.docstring) THEN FirstLine(Val(sym.docstring))
    ELSE make_placeholder(<<"Describe", " ", sym.name>>)

\* the Section appended for a symbol
SectionOf(sym) ==
    Section(sym.name, sym.kind, sym.line,
            IF Truthy(sym.docstring) THEN FirstLine(Val(sym.docstring)) ELSE <<>>,
            ~Truthy(sym.docstring))

SigText(sym) == IF IsNone(sym.signature) \/ Val(sym.signature) = "" THEN "()" ELSE Val(sym.signature)

RenderMethod(method, rel_src) ==
    << <<"#### ", BT, method.name, SigText(method), BT>>, Blank,
       SummaryLine(method), Blank,
       SourceLink(rel_src, method.line), Blank >>

RenderClass(cls, methods, rel_src) ==
    LET class_methods == SelectSeq(methods, LAMBDA m : m.parent = Some(cls.name))
    IN  << <<"### ", cls.name>>, Blank, SummaryLine(cls), Blank >>
        \o Concat([i \in 1..Len(class_methods) |-> RenderMethod(class_methods[i], rel_src)])

ClassSections(cls, methods) ==
    LET class_methods == SelectSeq(methods, LAMBDA m : m.parent = Some(cls.name))
    IN  <<SectionOf(cls)>> \o [i \in 1..Len(class_methods) |-> SectionOf(class_methods[i])]

RenderFunction(func, rel_src) ==
    << <<"### ", BT, func.name, SigText(func), BT>>, Blank,
       SummaryLine(func), Blank,
       SourceLink(rel_src, func.line), Blank >>

_render_module_md(module, domain_id, srcfs, existing) ==
    LET src_full == src_dir \o module.source_path
        module_map_path == map_dir \o ModulePath(module, domain_id)
        rel_src == compute_relative_path(module_map_path, src_full)
        classes == SelectSeq(module.symbols, LAMBDA s : s.kind = "class")
        functions == SelectSeq(module.symbols, LAMBDA s : s.kind = "function")
        methods == SelectSeq(module.symbols, LAMBDA s : s.kind = "method")
        module_name == Stem(module.source_path)
        module_doc == extract_module_docstring(
                         IF Exists(srcfs, module.source_path)
                         THEN Some(srcfs[module.source_path]) ELSE None)
        module_description ==
            IF Truthy(module_doc) THEN Strip(FirstLine(Val(module_doc)))
            ELSE make_placeholder(<<"Describe", " ", module_name>>)
        class_parts ==
            IF classes = <<>> THEN <<>>
            ELSE << <<"## Classes">>, Blank >>
                 \o Concat([i \in 1..Len(classes) |-> RenderClass(classes[i], methods, rel_src)])
        function_parts ==
            IF functions = <<>> THEN <<>>
            ELSE << <<"## Functions">>, Blank >>
                 \o Concat([i \in 1..Len(functions) |-> RenderFunction(functions[i], rel_src)])
        sections ==
            Concat([i \in 1..Len(classes) |-> ClassSections(classes[i], methods)])
            \o [i \in 1..Len(functions) |-> SectionOf(functions[i])]
        content ==
            render_template("module.md",
                [module_id |-> << <<domain_id, ".", module_name>> >>,
                 module_name |-> << <<"# ", module_name>> >>,
                 module_description |-> <<module_description>>,
                 components |-> class_parts \o function_parts])
    IN  [content |-> content, sections |-> sections]

ModuleRow(module, domain_id) ==
    LET module_name == Stem(module.source_path)
        module_link == <<"[", module_name, "]", "(", "..", "/", "modules", "/", domain_id,
                         "/", MdName(module_name), ")">>
        classes == Len(SelectSeq(module.symbols, LAMBDA s : s.kind = "class"))
        functions == Len(SelectSeq(module.symbols, LAMBDA s : s.kind = "function"))
        parts ==
            (IF classes > 0
             THEN << <<ToString(classes), IF classes > 1 THEN " classes" ELSE " class">> >>
             ELSE <<>>)
            \o (IF functions > 0
                THEN << <<ToString(functions),
                          IF functions > 1 THEN " functions" ELSE " function">> >>
                ELSE <<>>)
        joined == IF Len(parts) = 2 THEN parts[1] \o <<", ">> \o parts[2] ELSE Concat(parts)
        desc == IF module.symbols # <<>> /\ parts # <<>> THEN joined
                ELSE make_placeholder(<<"Describe", " ", module_name>>)
    IN  <<"| ">> \o module_link \o <<" | ">> \o desc \o <<" |">>

_render_domain_md(domain, existing) ==
    LET modules_rows == [i \in 1..Len(domain.modules) |->
                            ModuleRow(domain.modules[i], domain.domain_id)]
        modules_table == IF modules_rows # <<>> THEN modules_rows
                         ELSE << <<"| *No modules* | |">> >>
        dependencies == make_placeholder(<<"List cross-domain dependencies">>)
    IN  render_template("domain.md",
            [domain_id |-> << <<domain.domain_id>> >>,
             domain_name |-> << <<"# ", domain.name>> >>,
             domain_description |-> <<domain.description>>,
             modules_table |-> modules_table,
             dependencies |-> <<dependencies>>])

DomainSummary(d) ==
    RemoveAll(RemoveAll(d.description, PLACEHOLDER_PREFIX), PLACEHOLDER_SUFFIX)

_render_readme_md(project_name, project_description, domains) ==
    render_template("README.md",
        [project_name |-> << <<"# ", project_name>> >>,
         project_description |-> <<project_description>>,
         domains_table |->
            [i \in 1..Len(domains) |->
                <<"| ", domains[i].name, " | ", "[", "domains", "/",
                  MdName(domains[i].domain_id), "]", "(", "domains", "/",
                  MdName(domains[i].domain_id), ")", " | ">>
                \o DomainSummary(domains[i]) \o <<" |">>]])

_render_architecture_md(project_name, domains) ==
    render_template("ARCHITECTURE.md",
        [project_name |-> << <<"# ", project_name>> >>,
         domains_table |->
            [i \in 1..Len(domains) |->
                <<"| ", "[", domains[i].name, "]", "(", "domains", "/",
                  MdName(domains[i].domain_id), ")", " | ">>
                \o DomainSummary(domains[i]) \o <<" |">>]])

(***************************************************************************)
(* generator.py: generate_maps.  Directories under map_dir are paths       *)
(* relative to map_dir; <<>> is map_dir itself.                            *)
(***************************************************************************)
\* a configuration that drops the dry_run flag
GeneratorConfigAlwaysWriting(project_description, dry_run) ==
    [project_name |-> None, project_description |-> project_description,
     dry_run |-> FALSE]

GeneratorConfig(project_description, dry_run) ==
    [project_name |-> None, project_description |-> project_description,
     dry_run |-> dry_run]

DefaultProjectDescription == make_placeholder(<<"Describe this project">>)

\* src_dir.name.replace("_", " ").title() and src_dir.name.lower()
Title(name) == IF name = "calculator" THEN "Calculator" ELSE name

Lower(name) == name

IsSourceFile(srcfs, f) ==
    /\ f \in DOMAIN srcfs
    /\ Name(f) # "__init__.py"
    /\ \A i \in 1..Len(f) : f[i] # "__pycache__"

\* the modules list: one SourceModule per source file that yields symbols
Modules(srcfs) ==
    LET source_files == SelectSeq(SortedUniverse, LAMBDA f : IsSourceFile(srcfs, f))
        extracted == [i \in 1..Len(source_files) |->
                        SourceModule(source_files[i],
                                     extract_symbols(Some(srcfs[source_files[i]])))]
    IN  SelectSeq(extracted, LAMBDA m : m.symbols # <<>>)

\* report.<field>.append(item) when the path is not in existing_files
TrackCreated(report, path, existing_files) ==
    IF path \notin existing_files
    THEN [report EXCEPT !.created_files = Append(@, path)]
    ELSE report

\* one iteration of the loop over modules (lines 123-155)
ModuleStep(acc, module, config, domain_id, srcfs, existing_files) ==
    LET module_path == ModulePath(module, domain_id)
        existing_module == IF Exists(acc.map, module_path) THEN Some(acc.map[module_path])
                           ELSE None
        rendered == _render_module_md(module, domain_id, srcfs, existing_module)
        written == IF ~config.dry_run
                   THEN [map |-> WriteText(acc.map, module_path, rendered.content),
                         dirs |-> acc.dirs \cup Ancestors(<<"modules", domain_id>>)]
                   ELSE [map |-> acc.map, dirs |-> acc.dirs]
        report1 == TrackCreated(acc.report, module_path, existing_files)
        map_file == MapFile(module.source_path, module_path, <<>>, FALSE, rendered.sections)
        report2 == [report1 EXCEPT !.new_sections =
                       @ \o [i \in 1..Len(module.symbols) |->
                                <<module_path, module.symbols[i].name>>]]
    IN  [map |-> written.map, dirs |-> written.dirs, report |-> report2,
         all_module_sections |-> acc.all_module_sections \o rendered.sections,
         map_files |-> Append(acc.map_files, map_file)]

RECURSIVE ModuleLoop(_, _, _, _, _, _)
ModuleLoop(acc, modules, config, domain_id, srcfs, existing_files) ==
    IF modules = <<>> THEN acc
    ELSE TheOne({ModuleLoop(next, Tail(modules), config, domain_id, srcfs, existing_files) :
                    next \in {ModuleStep(acc, Head(modules), config, domain_id, srcfs,
                                         existing_files)}})

\* the items lines 171-190 append to report.unfilled_placeholders
UnfilledItems(config, domain, domain_path, all_module_sections, modules) ==
    LET owner(section) ==
            SelectSeq(modules, LAMBDA m :
                \E i \in 1..Len(m.symbols) : m.symbols[i].name = section.symbol_name)
        placeholders == SelectSeq(all_module_sections,
                                  LAMBDA sec : sec.is_placeholder /\ owner(sec) # <<>>)
    IN  (IF is_placeholder(config.project_description)
         THEN << <<<<"README.md">>, "project">>, <<<<"ARCHITECTURE.md">>, "project">> >>
         ELSE <<>>)
        \o (IF is_placeholder(domain.description) THEN << <<domain_path, "domain">> >>
            ELSE <<>>)
        \o [i \in 1..Len(placeholders) |->
               <<ModulePath(owner(placeholders[i])[1], domain.domain_id),
                 placeholders[i].symbol_name>>]

\* report.unfilled_placeholders.append(...): AttributeError when the report has
\* no such attribute
TrackUnfilled(report, items) ==
    IF items = <<>> THEN [exception |-> None, report |-> report]
    ELSE IF "unfilled_placeholders" \in DOMAIN report
    THEN [exception |-> None,
          report |-> [f \in DOMAIN report |->
                        IF f = "unfilled_placeholders" THEN report[f] \o items
                        ELSE report[f]]]
    ELSE [exception |-> Some("AttributeError"), report |-> report]

\* lines 157-192, after the loop over modules
AfterModules(config, domain, looped, existing_files) ==
    LET domain_path == <<"domains", MdName(domain.domain_id)>>
        existing_domain == IF Exists(looped.map, domain_path)
                           THEN Some(looped.map[domain_path]) ELSE None
        domain_content == _render_domain_md(domain, existing_domain)
        map2 == IF ~config.dry_run THEN WriteText(looped.map, domain_path, domain_content)
                ELSE looped.map
        dirs2 == IF ~config.dry_run THEN looped.dirs \cup Ancestors(<<"domains">>)
                 ELSE looped.dirs
        report2 == TrackCreated(looped.report, domain_path, existing_files)
        tracked == TrackUnfilled(report2,
                     UnfilledItems(config, domain, domain_path,
                                   looped.all_module_sections, domain.modules))
    IN  [map |-> map2, dirs |-> dirs2, exception |-> tracked.exception,
         report |-> tracked.report, map_files |-> looped.map_files]

\* lines 83-155, once the modules are extracted
WithModules(config, srcfs, mapfs, mapdirs, modules) ==
    LET project_name == Title(Name(src_dir))
        domain_id == Lower(Name(src_dir))
        domain == Domain(project_name, domain_id,
                         make_placeholder(<<"Describe this domain">>), modules)
        existing_files == IF <<>> \in mapdirs THEN DOMAIN mapfs ELSE {}
        readme_content == _render_readme_md(project_name, config.project_description,
                                            <<domain>>)
        arch_md_content == _render_architecture_md(project_name, <<domain>>)
        map1 == IF ~config.dry_run
                THEN WriteText(WriteText(mapfs, <<"README.md">>, readme_content),
                               <<"ARCHITECTURE.md">>, arch_md_content)
                ELSE mapfs
        dirs1 == IF ~config.dry_run THEN mapdirs \cup {<<>>} ELSE mapdirs
        report1 == TrackCreated(TrackCreated(ChangeReport, <<"README.md">>, existing_files),
                                <<"ARCHITECTURE.md">>, existing_files)
    IN  TheOne({AfterModules(config, domain, looped, existing_files) :
                  looped \in {ModuleLoop(acc, modules, config, domain_id, srcfs,
                                         existing_files) :
                              acc \in {[map |-> map1, dirs |-> dirs1, report |-> report1,
                                        all_module_sections |-> <<>>,
                                        map_files |-> <<>>]}}})

generate_maps(config, srcfs, mapfs, mapdirs) ==
    TheOne({WithModules(config, srcfs, mapfs, mapdirs, modules) :
              modules \in {Modules(srcfs)}})

(***************************************************************************)
(* code_map.py: cmd_generate.  An uncaught exception ends the interpreter  *)
(* with exit status 1.                                                     *)
(***************************************************************************)
SrcArg == "proj/src/calculator"

MissingArg == "proj/missing"

MapArg == "proj/docs/map"

\* Path(args[0]).exists()
PathExists(arg) == arg = SrcArg

Range(seq) == {seq[i] : i \in DOMAIN seq}

NoRun(mapfs, mapdirs) ==
    [exit |-> 1, ran |-> FALSE, returned |-> FALSE, exception |-> None,
     dry_run |-> FALSE, map |-> mapfs, dirs |-> mapdirs, report |-> ChangeReport,
     map_files |-> <<>>]

cmd_generate(args, srcfs, mapfs, mapdirs) ==
    IF Len(args) < 2 THEN NoRun(mapfs, mapdirs)
    ELSE IF ~PathExists(args[1]) THEN NoRun(mapfs, mapdirs)
    ELSE LET dry_run == "--dry-run" \in Range(args)
             config == GeneratorConfig(DefaultProjectDescription, dry_run)
         IN  TheOne({[exit |-> IF IsNone(g.exception) THEN 0 ELSE 1,
                      ran |-> TRUE, returned |-> IsNone(g.exception),
                      exception |-> g.exception, dry_run |-> dry_run,
                      map |-> g.map, dirs |-> g.dirs, report |-> g.report,
                      map_files |-> g.map_files] :
                     g \in {generate_maps(config, srcfs, mapfs, mapdirs)}})

(***************************************************************************)
(* The state machine.  src and map are the two file systems, mapDirs the   *)
(* directories under map_dir, last the outcome of the command that just    *)
(* ran (Idle after an edit), succ the number of non-dry generate commands  *)
(* run in succession with no edit in between.                              *)
(***************************************************************************)
Idle ==
    [cmd |-> "none", args |-> <<>>, exit |-> 0, ran |-> FALSE, returned |-> FALSE,
     exception |-> None, dry_run |-> FALSE, report |-> ChangeReport,
     map_files |-> <<>>, preMap |-> <<>>, preDirs |-> {}]

ArgLists ==
    {<<SrcArg>>, <<MissingArg, MapArg>>, <<SrcArg, MapArg>>,
     <<SrcArg, MapArg, "--dry-run">>}

HumanProse == <<"Divides a by b, by hand.">>

HandNotes == <<"Hand-written notes.">>

Init ==
    /\ src = (InitPy :> InitPyTree) @@ (Broken :> BrokenTree)
             @@ (Ops :> OpsTree(<<AddNode>>))
    /\ map = <<>>
    /\ mapDirs = {}
    /\ last = Idle
    /\ succ = 0

CmdGenerate(args) ==
    \E r \in {cmd_generate(args, src, map, mapDirs)} :
        /\ map' = r.map
        /\ mapDirs' = r.dirs
        /\ last' = [cmd |-> "generate", args |-> args, exit |-> r.exit, ran |-> r.ran,
                    returned |-> r.returned, exception |-> r.exception,
                    dry_run |-> r.dry_run, report |-> r.report,
                    map_files |-> r.map_files,
                    preMap |-> map, preDirs |-> mapDirs]
        /\ succ' = IF r.ran /\ ~r.dry_run
                   THEN (IF succ < MaxSucc THEN succ + 1 ELSE succ)
                   ELSE 0
        /\ UNCHANGED src

HasDivide == Len(src[Ops].body) = 2

Edited == /\ last' = Idle
          /\ succ' = 0

AddDivide(line, doc) ==
    /\ ~HasDivide
    /\ src' = [src EXCEPT ![Ops] = OpsTree(<<AddNode, DivideNode(line, doc)>>)]
    /\ Edited
    /\ UNCHANGED <<map, mapDirs>>

RemoveDivide ==
    /\ HasDivide
    /\ src' = [src EXCEPT ![Ops] = OpsTree(<<AddNode>>)]
    /\ Edited
    /\ UNCHANGED <<map, mapDirs>>

MoveDivide(line) ==
    /\ HasDivide
    /\ src[Ops].body[2].lineno # line
    /\ src' = [src EXCEPT ![Ops] = OpsTree(<<AddNode, DivideNode(line, src[Ops].body[2].doc)>>)]
    /\ Edited
    /\ UNCHANGED <<map, mapDirs>>

SetDivideDoc(doc) ==
    /\ HasDivide
    /\ src[Ops].body[2].doc # doc
    /\ src' = [src EXCEPT ![Ops] = OpsTree(<<AddNode, DivideNode(src[Ops].body[2].lineno, doc)>>)]
    /\ Edited
    /\ UNCHANGED <<map, mapDirs>>

CreateSource(f, tree) ==
    /\ f \notin DOMAIN src
    /\ src' = WriteText(src, f, tree)
    /\ Edited
    /\ UNCHANGED <<map, mapDirs>>

DeleteSource(f) ==
    /\ f \in DOMAIN src
    /\ src' = Remove(src, f)
    /\ Edited
    /\ UNCHANGED <<map, mapDirs>>

\* the map holds no hand-written line (the model keeps one hand edit at a time)
NoHandEdit ==
    \A p \in DOMAIN map : \A j \in 1..Len(map[p]) : map[p][j] \notin {HumanProse, HandNotes}

\* a person rewrites the summary line under a symbol heading of a module document
IsSymbolHeading(l) == l # <<>> /\ l[1] \in {"### ", "#### "}

HumanEditDescription(p, i) ==
    /\ p \in DOMAIN map
    /\ p = <<"modules", "calculator", "ops.md">>
    /\ i \in 3..Len(map[p])
    /\ IsSymbolHeading(map[p][i - 2])
    /\ NoHandEdit
    /\ map' = [map EXCEPT ![p] = [@ EXCEPT ![i] = HumanProse]]
    /\ Edited
    /\ UNCHANGED <<src, mapDirs>>

\* a person adds notes to the index or to the architecture document
HumanEditIndex(p) ==
    /\ p \in DOMAIN map
    /\ NoHandEdit
    /\ map' = [map EXCEPT ![p] = Append(@, HandNotes)]
    /\ Edited
    /\ UNCHANGED <<src, mapDirs>>

Next ==
    \/ \E args \in ArgLists : CmdGenerate(args)
    \/ \E line \in DivideLines, doc \in Docs : AddDivide(line, doc)
    \/ RemoveDivide
    \/ \E line \in DivideLines : MoveDivide(line)
    \/ \E doc \in Docs : SetDivideDoc(doc)
    \/ CreateSource(UtilA, UtilATree)
    \/ CreateSource(UtilB, UtilBTree)
    \/ \E f \in {UtilA, UtilB} : DeleteSource(f)
    \/ \E p \in DOMAIN map, i \in 1..MaxDocLines : HumanEditDescription(p, i)
    \/ \E p \in {<<"README.md">>, <<"ARCHITECTURE.md">>} : HumanEditIndex(p)

Spec == Init /\ [][Next]_vars

(***************************************************************************)
(* Reading documents and reports.                                          *)
(***************************************************************************)
OpsDoc == <<"modules", "calculator", "ops.md">>

UtilDoc == <<"modules", "calculator", "util.md">>

\* the last step was a generate command that reached generate_maps
GenRan == last.cmd = "generate" /\ last.ran

\* the lines of document d that are the heading of symbol name
HeadingsOf(d, name) ==
    {j \in 1..Len(d) : IsSymbolHeading(d[j]) /\ name \in Range(d[j])}

Documents(d, name) == HeadingsOf(d, name) # {}

\* the description line and the link line under the heading of a function
DescriptionIn(d, name) == d[(CHOOSE j \in HeadingsOf(d, name) : TRUE) + 2]

LinkIn(d, name) == d[(CHOOSE j \in HeadingsOf(d, name) : TRUE) + 4]

\* the symbols the source file f declares
SymbolsIn(srcfs, f) ==
    IF f \in DOMAIN srcfs THEN Range(extract_symbols(Some(srcfs[f]))) ELSE {}

OpsRelSrc == compute_relative_path(map_dir \o OpsDoc, src_dir \o Ops)

(***************************************************************************)
(* C1 to C10: the generate command.                                        *)
(***************************************************************************)
\* C1: when the document of ops.py holds a human-authored description under
\* the heading of a function that the source still declares, the next generate
\* run leaves that description in place, byte for byte, and the link under the
\* heading carries the function's current line number.
C1_ProsePreserved ==
    [][\A sym \in SymbolsIn(src, Ops) :
         (/\ last'.cmd = "generate" /\ last'.ran /\ ~last'.dry_run
          /\ OpsDoc \in DOMAIN map
          /\ Documents(map[OpsDoc], sym.name)
          /\ DescriptionIn(map[OpsDoc], sym.name) = HumanProse)
         => /\ Documents(map'[OpsDoc], sym.name)
            /\ DescriptionIn(map'[OpsDoc], sym.name) = HumanProse
            /\ LinkIn(map'[OpsDoc], sym.name) = SourceLink(OpsRelSrc, sym.line)]_vars

\* C2: the second of two non-dry generate runs in succession, the source
\* unchanged in between, leaves every file under map_dir with the content the
\* first run left.
C2_SecondRunIdentical == succ >= 2 => map = last.preMap

\* C2 witness: two runs in succession over a tree with an undocumented
\* function, a moved declaration and two modules named util, all documents
\* written.
C2_SecondRunReached ==
    /\ succ >= 2
    /\ HasDivide /\ IsNone(src[Ops].body[2].doc) /\ src[Ops].body[2].lineno = 3
    /\ UtilA \in DOMAIN src /\ UtilB \in DOMAIN src
    /\ {<<"README.md">>, <<"ARCHITECTURE.md">>, <<"domains", "calculator.md">>,
        OpsDoc, UtilDoc} \subseteq DOMAIN map
    /\ Documents(map[OpsDoc], "divide")

\* C3: a generate run leaves README.md and ARCHITECTURE.md as they were when
\* they existed before the run.
C3_IndexNotClobbered ==
    [][last'.cmd = "generate" =>
         \A p \in {<<"README.md">>, <<"ARCHITECTURE.md">>} :
            p \in DOMAIN map => (p \in DOMAIN map' /\ map'[p] = map[p])]_vars

\* C4: generate <src-dir> <map-dir> exits with 1 and writes nothing when
\* src-dir does not exist; otherwise generate_maps returns without raising and
\* the command exits with 0.
C4_ExitCodes ==
    (last.cmd = "generate" /\ Len(last.args) >= 2) =>
        IF ~PathExists(last.args[1])
        THEN last.exit = 1 /\ ~last.ran /\ map = last.preMap /\ mapDirs = last.preDirs
        ELSE last.ran /\ last.returned /\ last.exit = 0

\* the symbol of source file f that section sec describes
SymbolOf(srcfs, f, sec) ==
    CHOOSE sym \in SymbolsIn(srcfs, f) :
        sym.name = sec.symbol_name /\ sym.kind = sec.symbol_kind

\* C5: after a generate run, the description of every generated Section is a
\* placeholder exactly when its symbol has no docstring in the source.
C5_PlaceholderIffNoDocstring ==
    GenRan =>
        \A i \in DOMAIN last.map_files :
            \A k \in DOMAIN last.map_files[i].sections :
                LET sec == last.map_files[i].sections[k]
                    sym == SymbolOf(src, last.map_files[i].source_path, sec)
                IN  is_placeholder(sec.description) <=> ~Truthy(sym.docstring)

\* C6: when divide, documented in the document of ops.py by an earlier run, is
\* gone from ops.py, the next generate run lists (document, "divide") in
\* removed_sections.
C6_RemovedReported ==
    [][(/\ last'.cmd = "generate" /\ last'.ran
        /\ OpsDoc \in DOMAIN map
        /\ Documents(map[OpsDoc], "divide")
        /\ ~HasDivide)
       => <<OpsDoc, "divide">> \in Range(last'.report.removed_sections)]_vars

\* C7: every entry of new_sections of a generate run names a symbol that the
\* map did not document before the run.
C7_NewSectionsAreNew ==
    [][(last'.cmd = "generate" /\ last'.ran) =>
         \A e \in Range(last'.report.new_sections) :
            ~(e[1] \in DOMAIN map /\ Documents(map[e[1]], e[2]))]_vars

\* the paths a non-dry run writes
Produced(srcfs) ==
    {<<"README.md">>, <<"ARCHITECTURE.md">>, <<"domains", "calculator.md">>}
    \cup {ModulePath(m, "calculator") : m \in Range(Modules(srcfs))}

\* C8: a non-dry generate run returns a ChangeReport whose created_files holds
\* a path exactly when the run wrote the file and no file was at that path
\* when the run started.
C8_CreatedFiles ==
    (GenRan /\ ~last.dry_run) =>
        /\ last.returned
        /\ \A p \in Produced(src) \cup DOMAIN last.preMap :
              p \in Range(last.report.created_files)
                 <=> (p \in Produced(src) /\ p \notin DOMAIN last.preMap)

\* C9: after a generate run, missing_docstrings holds one entry (source path,
\* line, name) for each extracted symbol without a docstring and none for a
\* symbol with one.
C9_MissingDocstrings ==
    GenRan =>
        \A i \in DOMAIN last.map_files :
            \A sym \in SymbolsIn(src, last.map_files[i].source_path) :
                LET f == last.map_files[i].source_path
                    entries == SelectSeq(last.report.missing_docstrings,
                                         LAMBDA e : e = <<f, sym.line, sym.name>>)
                IN  Len(entries) = (IF Truthy(sym.docstring) THEN 0 ELSE 1)

\* C10: after a non-dry generate run, the documents of two distinct source
\* modules are at distinct map paths, each path keeps the module's
\* subdirectories, and each document describes the symbols of its module.
C10_OneDocumentPerModule ==
    (GenRan /\ ~last.dry_run) =>
        \A i \in DOMAIN last.map_files :
            LET mf == last.map_files[i]
            IN  /\ \A j \in DOMAIN last.map_files :
                      i # j => last.map_files[j].map_path # mf.map_path
                /\ Parent(mf.map_path) = <<"modules", "calculator">> \o Parent(mf.source_path)
                /\ mf.map_path \in DOMAIN map
                /\ \A k \in DOMAIN mf.sections :
                      Documents(map[mf.map_path], mf.sections[k].symbol_name)

(***************************************************************************)
(* C11 and C19: dry runs and the Sections of the generator.                *)
(***************************************************************************)
\* C11: a generate run with --dry-run leaves every file and every directory
\* under map_dir, and map_dir itself, as they were before the run.
C11_DryRunWritesNothing ==
    (GenRan /\ last.dry_run) => (map = last.preMap /\ mapDirs = last.preDirs)

\* C11 witness: a dry run over a map whose document of ops.py does not yet
\* describe divide, which a non-dry run would have rewritten.
C11_DryRunOverStaleMap ==
    /\ GenRan /\ last.dry_run
    /\ HasDivide
    /\ OpsDoc \in DOMAIN map
    /\ ~Documents(map[OpsDoc], "divide")

\* C19: every Section the generator builds has is_placeholder true exactly
\* when its description has the placeholder form.
C19_FlagMatchesDescription ==
    GenRan =>
        \A i \in DOMAIN last.map_files :
            \A k \in DOMAIN last.map_files[i].sections :
                LET sec == last.map_files[i].sections[k]
                IN  sec.is_placeholder <=> is_placeholder(sec.description)

(***************************************************************************)
(* differ.py: merge_maps.  The sections of a ParsedMapFile are a function  *)
(* from symbol names to ParsedSections (a dict); the removed and added     *)
(* names, lists built from sets, are kept as sets.                         *)
(***************************************************************************)
ParsedSection(symbol_name, line_number, description, is_ph) ==
    [symbol_name |-> symbol_name, line_number |-> line_number,
     description |-> description, is_placeholder |-> is_ph]

ParsedMapFile(file_description, file_description_is_placeholder, sections) ==
    [file_description |-> file_description,
     file_description_is_placeholder |-> file_description_is_placeholder,
     sections |-> sections]

\* a merge that keeps the line number the document recorded
MergedSectionStaleLine(existing, s) ==
    IF ~IsNone(existing) /\ s.name \in DOMAIN Val(existing).sections
    THEN LET old == Val(existing).sections[s.name]
         IN  Section(s.name, s.kind, old.line_number, old.description, old.is_placeholder)
    ELSE Section(s.name, s.kind, s.line, make_placeholder(<<"Describe", " ", s.name>>), TRUE)

\* the Section merge_maps builds for the current symbol s
MergedSection(existing, s) ==
    IF ~IsNone(existing) /\ s.name \in DOMAIN Val(existing).sections
    THEN LET old == Val(existing).sections[s.name]
         IN  Section(s.name, s.kind, s.line, old.description, old.is_placeholder)
    ELSE Section(s.name, s.kind, s.line, make_placeholder(<<"Describe", " ", s.name>>), TRUE)

merge_maps(existing, symbols, source_path, map_path) ==
    LET current_names == {symbols[i].name : i \in DOMAIN symbols}
        sections == [i \in DOMAIN symbols |-> MergedSection(existing, symbols[i])]
    IN  IF IsNone(existing)
        THEN [map_file |-> MapFile(source_path, map_path,
                                   make_placeholder(<<"Describe this module">>), TRUE,
                                   sections),
              removed |-> {}, added |-> current_names]
        ELSE LET existing_names == DOMAIN Val(existing).sections
                 file_desc_is_placeholder == Val(existing).file_description_is_placeholder
                 file_desc == IF file_desc_is_placeholder
                              THEN make_placeholder(<<"Describe this module">>)
                              ELSE Val(existing).file_description
             IN  [map_file |-> MapFile(source_path, map_path, file_desc,
                                       file_desc_is_placeholder, sections),
                  removed |-> existing_names \ current_names,
                  added |-> current_names \ existing_names]

(***************************************************************************)
(* merge_maps applied to the symbols of a source file and to the parsed    *)
(* form of an earlier document.                                            *)
(***************************************************************************)
\* the symbol names an earlier document can hold
ParsedNames == {"add", "divide", "gone"}

\* the line number an earlier document recorded for its symbols
ParsedLine == 7

ParsedDescriptions == {HumanProse, make_placeholder(<<"Describe", " ", "add">>)}

ParsedFileDescriptions == {<<"Arithmetic, by hand.">>, make_placeholder(<<"Describe this module">>)}

ExistingMaps ==
    {None} \cup
    {Some(ParsedMapFile(fd, is_placeholder(fd),
                        [n \in S |-> ParsedSection(n, ParsedLine, d[n], is_placeholder(d[n]))])) :
        fd \in ParsedFileDescriptions, S \in SUBSET ParsedNames,
        d \in [ParsedNames -> ParsedDescriptions]}

MergeMaps(f, existing) ==
    /\ f \in DOMAIN src
    /\ \E r \in {merge_maps(existing, extract_symbols(Some(src[f])), f,
                            <<"modules", "calculator", MdName(Stem(f))>>)} :
          last' = [cmd |-> "merge", source_path |-> f, existing |-> existing,
                   map_file |-> r.map_file, removed |-> r.removed, added |-> r.added]
    /\ succ' = 0
    /\ UNCHANGED <<src, map, mapDirs>>

NextMerge ==
    \/ \E f \in SrcFiles, existing \in ExistingMaps : MergeMaps(f, existing)
    \/ \E line \in DivideLines, doc \in Docs : AddDivide(line, doc)
    \/ RemoveDivide
    \/ \E line \in DivideLines : MoveDivide(line)
    \/ \E doc \in Docs : SetDivideDoc(doc)
    \/ CreateSource(UtilA, UtilATree)
    \/ \E f \in {UtilA} : DeleteSource(f)

SpecMerge == Init /\ [][NextMerge]_vars

\* C20: merge_maps returns one Section per current symbol, in the order of
\* the symbols, with the symbol's name, kind and line; the description and
\* the flag are those of the entry of existing.sections under the symbol's
\* name when there is one, and the placeholder 'Describe <name>' with the
\* flag true otherwise (also when existing is None).
C20_MergedSections ==
    last.cmd = "merge" =>
        LET symbols == extract_symbols(Some(src[last.source_path]))
            sections == last.map_file.sections
        IN  /\ Len(sections) = Len(symbols)
            /\ \A i \in DOMAIN symbols :
                  /\ sections[i].symbol_name = symbols[i].name
                  /\ sections[i].symbol_kind = symbols[i].kind
                  /\ sections[i].line_number = symbols[i].line
                  /\ IF ~IsNone(last.existing)
                        /\ symbols[i].name \in DOMAIN Val(last.existing).sections
                     THEN LET old == Val(last.existing).sections[symbols[i].name]
                          IN  /\ sections[i].description = old.description
                              /\ sections[i].is_placeholder = old.is_placeholder
                     ELSE /\ sections[i].description
                               = make_placeholder(<<"Describe", " ", symbols[i].name>>)
                          /\ sections[i].is_placeholder

\* C20 witness: ops.py declares add and divide; the earlier document holds a
\* hand-written description of add at another line and a symbol that is gone,
\* and nothing about divide.
C20_MergeCarriesAndAdds ==
    /\ last.cmd = "merge" /\ last.source_path = Ops
    /\ HasDivide
    /\ ~IsNone(last.existing)
    /\ DOMAIN Val(last.existing).sections = {"add", "gone"}
    /\ Val(last.existing).sections["add"].description = HumanProse
    /\ Len(last.map_file.sections) = 2

(***************************************************************************)
(* validate/lsp_client.py.  ast.walk visits every node of the tree, nested *)
(* ones included.                                                          *)
(***************************************************************************)
Symbol(name, line, kind) == [name |-> name, line |-> line, kind |-> kind]

\* the Symbols of one node and of the nodes below it
RECURSIVE WalkNode(_)
WalkNode(n) ==
    (IF n.type = "def" THEN {Symbol(n.name, n.lineno, "function")}
     ELSE IF n.type = "class" THEN {Symbol(n.name, n.lineno, "class")}
     ELSE {})
    \cup UNION {WalkNode(n.body[i]) : i \in DOMAIN n.body}

\* file is None (no such file) or Some of the syntax tree
get_symbols(file) ==
    IF IsNone(file) THEN {}
    ELSE IF ~Val(file).parses THEN {}
    ELSE UNION {WalkNode(Val(file).body[i]) : i \in DOMAIN Val(file).body}

symbol_exists(file, symbol_name) ==
    \E sym \in get_symbols(file) : sym.name = symbol_name

Abs(x) == IF x < 0 THEN -x ELSE x

symbol_at_line(file, symbol_name, line, tolerance) ==
    \E sym \in get_symbols(file) :
        sym.name = symbol_name /\ Abs(sym.line - line) <= tolerance

(***************************************************************************)
(* validate/validate_map.py: the link patterns.  A line is scanned token   *)
(* by token: "[", "]", "(", ")", "#", "/" and the backquote BT are tokens  *)
(* of their own, a line number is one token of digits.                     *)
(***************************************************************************)
\* highest line number a link can name
MaxLinkLine == 40

IsDigits(tok) == \E n \in 0..MaxLinkLine : ToString(n) = tok

\* int(tok)
ToInt(tok) == CHOOSE n \in 0..MaxLinkLine : ToString(n) = tok

\* the first position from `from` on whose token is in S, 0 when there is none
FirstIn(line, from, S) ==
    LET hits == {k \in from..Len(line) : line[k] \in S}
    IN  IF hits = {} THEN 0 ELSE CHOOSE k \in hits : \A h \in hits : k <= h

TokenAt(line, k) == IF k \in 1..Len(line) THEN line[k] ELSE ""

NoMatch == [matched |-> FALSE]

\* FILE_LINK_PATTERN matched at position i: [text](path) or [text](path#anchor)
FileLinkAt(line, i) ==
    IF TokenAt(line, i) # "[" THEN NoMatch
    ELSE LET j == FirstIn(line, i + 1, {"]"})
             k == FirstIn(line, j + 2, {")", "#"})
             e == IF TokenAt(line, k) = "#" THEN FirstIn(line, k + 1, {")"}) ELSE k
         IN  IF j > i + 1 /\ TokenAt(line, j + 1) = "(" /\ k > j + 2 /\ e > 0
                /\ (TokenAt(line, k) = "#" => e > k + 1)
             THEN [matched |-> TRUE, start |-> i, stop |-> e,
                   text |-> SubSeq(line, i + 1, j - 1),
                   path |-> SubSeq(line, j + 2, k - 1),
                   all |-> SubSeq(line, i, e)]
             ELSE NoMatch

\* CODE_LINK_PATTERN matched at position i: [`symbol`](path#L42)
CodeLinkAt(line, i) ==
    IF TokenAt(line, i) # "[" \/ TokenAt(line, i + 1) # BT THEN NoMatch
    ELSE LET j == FirstIn(line, i + 2, {BT})
             k == FirstIn(line, j + 3, {")", "#"})
         IN  IF j > i + 2 /\ TokenAt(line, j + 1) = "]" /\ TokenAt(line, j + 2) = "("
                /\ k > j + 3 /\ TokenAt(line, k) = "#" /\ TokenAt(line, k + 1) = "L"
                /\ IsDigits(TokenAt(line, k + 2)) /\ TokenAt(line, k + 3) = ")"
             THEN [matched |-> TRUE, start |-> i, stop |-> k + 3,
                   text |-> SubSeq(line, i + 2, j - 1),
                   path |-> SubSeq(line, j + 3, k - 1),
                   line_number |-> ToInt(line[k + 2])]
             ELSE NoMatch

\* SOURCE_LINK_PATTERN matched at position i: [Source](path#L42)
SourceLinkAt(line, i) ==
    IF i + 3 > Len(line) \/ SubSeq(line, i, i + 3) # <<"[", "Source", "]", "(">> THEN NoMatch
    ELSE LET k == FirstIn(line, i + 4, {")", "#"})
         IN  IF k > i + 4 /\ TokenAt(line, k) = "#" /\ TokenAt(line, k + 1) = "L"
                /\ IsDigits(TokenAt(line, k + 2)) /\ TokenAt(line, k + 3) = ")"
             THEN [matched |-> TRUE, start |-> i, stop |-> k + 3,
                   text |-> <<"Source">>,
                   path |-> SubSeq(line, i + 4, k - 1),
                   line_number |-> ToInt(line[k + 2])]
             ELSE NoMatch

MatchAt(pattern, line, i) ==
    CASE pattern = "FILE_LINK_PATTERN" -> FileLinkAt(line, i)
      [] pattern = "CODE_LINK_PATTERN" -> CodeLinkAt(line, i)
      [] pattern = "SOURCE_LINK_PATTERN" -> SourceLinkAt(line, i)

\* pattern.finditer(line) from position i on: the leftmost match, then the
\* matches after its end
RECURSIVE FindIter(_, _, _)
FindIter(pattern, line, i) ==
    TheOne({IF starts = {} THEN <<>>
            ELSE TheOne({<<m>> \o FindIter(pattern, line, m.stop + 1) :
                         m \in {MatchAt(pattern, line,
                                        CHOOSE k \in starts : \A h \in starts : k <= h)}}) :
            starts \in {{k \in i..Len(line) : MatchAt(pattern, line, k).matched}}})

\* prefix.count("``") and prefix.replace("``", "")
RECURSIVE CountDouble(_)
CountDouble(prefix) ==
    IF Len(prefix) < 2 THEN 0
    ELSE IF prefix[1] = BT /\ prefix[2] = BT
    THEN 1 + CountDouble(SubSeq(prefix, 3, Len(prefix)))
    ELSE CountDouble(Tail(prefix))

RECURSIVE RemoveDouble(_)
RemoveDouble(prefix) ==
    IF Len(prefix) < 2 THEN prefix
    ELSE IF prefix[1] = BT /\ prefix[2] = BT
    THEN RemoveDouble(SubSeq(prefix, 3, Len(prefix)))
    ELSE <<Head(prefix)>> \o RemoveDouble(Tail(prefix))

\* a mutant of _is_in_code_context: counts the backquotes one by one only
_is_in_code_contextSinglesOnly(line, match_start) ==
    Len(SelectSeq(SubSeq(line, 1, match_start - 1), LAMBDA t : t = BT)) % 2 = 1

_is_in_code_context(line, match_start) ==
    LET prefix == SubSeq(line, 1, match_start - 1)
        single_only == RemoveDouble(prefix)
    IN  \/ CountDouble(prefix) % 2 = 1
        \/ Len(SelectSeq(single_only, LAMBDA t : t = BT)) % 2 = 1

\* line.strip().startswith("```")
IsFence(line) == StartsWith(Strip(line), <<BT, BT, BT>>)

(***************************************************************************)
(* validate/validate_map.py: paths and the disk.  The disk holds the map   *)
(* files and directories under map_dir, the source files under src_dir and *)
(* the directories above them.  A link target is a regular file, a         *)
(* directory or absent.                                                    *)
(***************************************************************************)
\* the components of a path text: the tokens between the "/" tokens
PathParts(tokens) == SelectSeq(tokens, LAMBDA t : t # "/" /\ t # ".")

RECURSIVE Normalize(_, _)
Normalize(stack, rest) ==
    IF rest = <<>> THEN stack
    ELSE IF Head(rest) = ".."
    THEN Normalize(IF Len(stack) > 1 THEN Parent(stack) ELSE stack, Tail(rest))
    ELSE Normalize(Append(stack, Head(rest)), Tail(rest))

\* (md_file.parent / link_path).resolve(), md_file relative to map_dir
ResolveTarget(md_file, link_path) ==
    IF link_path # <<>> /\ link_path[1] = "/"
    THEN Normalize(<<"/">>, PathParts(link_path))
    ELSE Normalize(<<"/">>, Tail(map_dir) \o Parent(md_file) \o PathParts(link_path))

\* target.exists()
TargetExists(srcfs, mapfs, mapdirs, target) ==
    \/ StartsWith(map_dir, target) /\ Len(target) < Len(map_dir)
    \/ StartsWith(src_dir, target)
    \/ \E d \in mapdirs : target = map_dir \o d
    \/ \E q \in DOMAIN mapfs : target = map_dir \o q
    \/ \E f \in DOMAIN srcfs : target = src_dir \o f
    \/ \E f \in DOMAIN srcfs : \E n \in 0..(Len(f) - 1) : target = src_dir \o SubSeq(f, 1, n)

\* the Python source at target, None when target is not a source file
SourceAt(srcfs, target) ==
    IF \E f \in DOMAIN srcfs : target = src_dir \o f
    THEN Some(srcfs[CHOOSE f \in DOMAIN srcfs : target = src_dir \o f])
    ELSE None

\* len(target.read_text().split("\n")): a source file ends one line after its
\* last declaration, with a newline; a map file has the lines it has; 0
\* stands for a target that cannot be read (a directory)
RECURSIVE LastLine(_)
LastLine(body) ==
    IF body = <<>> THEN 0
    ELSE LET below == LastLine(body[Len(body)].body)
         IN  IF below > body[Len(body)].lineno THEN below ELSE body[Len(body)].lineno

TargetLength(srcfs, mapfs, target) ==
    IF \E f \in DOMAIN srcfs : target = src_dir \o f
    THEN LastLine(Val(SourceAt(srcfs, target)).body) + 2
    ELSE IF \E q \in DOMAIN mapfs : target = map_dir \o q
    THEN Len(mapfs[CHOOSE q \in DOMAIN mapfs : target = map_dir \o q])
    ELSE 0

\* link_path.startswith(("http://", "https://", "mailto:"))
IsExternal(link_path) ==
    \/ StartsWith(link_path, <<"http:", "/", "/">>)
    \/ StartsWith(link_path, <<"https:", "/", "/">>)
    \/ StartsWith(link_path, <<"mailto:">>)

\* the file names that end with ".py"
PyNames == {"ops.py", "util.py", "__init__.py", "broken.py", "core.py", "missing.py"}

\* link_path.endswith(".py")
EndsWithPy(link_path) == link_path # <<>> /\ link_path[Len(link_path)] \in PyNames

\* "#L" in match.group(0)
HasHashL(all) == \E k \in 1..(Len(all) - 1) : all[k] = "#" /\ all[k + 1] = "L"

(***************************************************************************)
(* validate/validate_map.py: the four checks.  rglob yields the files in   *)
(* directory order; the model lists them in the order of MapUniverse.      *)
(***************************************************************************)
ValidationError(file, line, message, error_type) ==
    [file |-> file, line |-> line, message |-> message, error_type |-> error_type]

SIZE_LIMITS == [L0 |-> 500, L1 |-> 300, L2 |-> 200]

\* symbol_at_line(target, symbol_name, line_number, tolerance=5)
LinkTolerance == 5

ReadmeMd == <<"README.md">>

ArchitectureMd == <<"ARCHITECTURE.md">>

DomainDoc == <<"domains", "calculator.md">>

BigDomainDoc == <<"domains", "big.md">>

CoreDoc == <<"modules", "calculator", "core.md">>

BigModuleDoc == <<"modules", "calculator", "big.md">>

MapUniverse ==
    <<ArchitectureMd, ReadmeMd, BigDomainDoc, DomainDoc, BigModuleDoc, CoreDoc,
      <<"modules", "calculator", "ops.md">>, <<"modules", "calculator", "util.md">>>>

\* map_dir.rglob("*.md")
MdFiles(mapfs) == SelectSeq(MapUniverse, LAMBDA q : q \in DOMAIN mapfs)

\* a mutant of check_structure: a "modules" directory stands in for "domains"
check_structureEitherDirectory(mapfs, mapdirs) ==
    (IF ~Exists(mapfs, ReadmeMd)
     THEN <<ValidationError(map_dir \o ReadmeMd, 0, <<"README.md not found">>, "structure")>>
     ELSE <<>>)
    \o (IF ~Exists(mapfs, ArchitectureMd)
        THEN <<ValidationError(map_dir \o ArchitectureMd, 0,
                               <<"ARCHITECTURE.md not found">>, "structure")>>
        ELSE <<>>)
    \o (IF <<"domains">> \notin mapdirs /\ <<"modules">> \notin mapdirs
        THEN <<ValidationError(map_dir \o <<"domains">>, 0,
                               <<"domains/ directory not found">>, "structure")>>
        ELSE <<>>)

check_structure(mapfs, mapdirs) ==
    (IF ~Exists(mapfs, ReadmeMd)
     THEN <<ValidationError(map_dir \o ReadmeMd, 0, <<"README.md not found">>, "structure")>>
     ELSE <<>>)
    \o (IF ~Exists(mapfs, ArchitectureMd)
        THEN <<ValidationError(map_dir \o ArchitectureMd, 0,
                               <<"ARCHITECTURE.md not found">>, "structure")>>
        ELSE <<>>)
    \o (IF <<"domains">> \notin mapdirs
        THEN <<ValidationError(map_dir \o <<"domains">>, 0,
                               <<"domains/ directory not found">>, "structure")>>
        ELSE <<>>)

\* the numbers of a set in increasing order
RECURSIVE Ascending(_)
Ascending(S) ==
    IF S = {} THEN <<>>
    ELSE LET least == CHOOSE k \in S : \A h \in S : k <= h
         IN  <<least>> \o Ascending(S \ {least})

\* the numbers of the lines of a document that the scanners look at: not a
\* fence line, not inside a fenced block; a line without "[" has no match
ScannedLines(lines) ==
    TheOne({Ascending({i \in 1..Len(lines) :
                         /\ "[" \in Range(lines[i])
                         /\ i \notin fences
                         /\ Cardinality({j \in fences : j < i}) % 2 = 0}) :
            fences \in {{j \in 1..Len(lines) : IsFence(lines[j])}}})

\* the error of one FILE_LINK_PATTERN match, if any
FileLinkError(srcfs, mapfs, mapdirs, md_file, line_num, line, m) ==
    IF _is_in_code_context(line, m.start) THEN <<>>
    ELSE IF IsExternal(m.path) THEN <<>>
    ELSE IF m.text[1] = BT /\ HasHashL(m.all) THEN <<>>
    ELSE IF EndsWithPy(m.path) THEN <<>>
    ELSE IF ~TargetExists(srcfs, mapfs, mapdirs, ResolveTarget(md_file, m.path))
    THEN <<ValidationError(md_file, line_num,
                           <<"[">> \o m.text \o <<"]", "(">> \o m.path
                              \o <<")", " -> file not found">>,
                           "broken_link")>>
    ELSE <<>>

FileLinkErrorsOfLine(srcfs, mapfs, mapdirs, md_file, line_num) ==
    TheOne({Concat([k \in DOMAIN matches |->
                FileLinkError(srcfs, mapfs, mapdirs, md_file, line_num,
                              mapfs[md_file][line_num], matches[k])]) :
            matches \in {FindIter("FILE_LINK_PATTERN", mapfs[md_file][line_num], 1)}})

FileLinkErrorsOfDoc(srcfs, mapfs, mapdirs, md_file) ==
    TheOne({Concat([n \in DOMAIN scanned |->
                FileLinkErrorsOfLine(srcfs, mapfs, mapdirs, md_file, scanned[n])]) :
            scanned \in {ScannedLines(mapfs[md_file])}})

check_file_links(srcfs, mapfs, mapdirs) ==
    LET files == MdFiles(mapfs)
    IN  Concat([n \in DOMAIN files |->
                   FileLinkErrorsOfDoc(srcfs, mapfs, mapdirs, files[n])])

\* the symbol name a text names: the regex group as one string
SymbolName(text) == IF Len(text) = 1 THEN text[1] ELSE ""

CodeLinkMessage(m, outcome) ==
    <<"[", BT>> \o m.text \o <<BT, "]", "(">> \o m.path
       \o <<"#", "L", ToString(m.line_number), ")">> \o outcome

\* the error of one CODE_LINK_PATTERN match, if any
CodeLinkError(srcfs, mapfs, mapdirs, md_file, line_num, line, m) ==
    LET target == ResolveTarget(md_file, m.path)
        file == SourceAt(srcfs, target)
    IN  IF _is_in_code_context(line, m.start) THEN <<>>
        ELSE IF ~TargetExists(srcfs, mapfs, mapdirs, target)
        THEN <<ValidationError(md_file, line_num,
                               CodeLinkMessage(m, <<" -> file not found">>), "broken_symbol")>>
        ELSE IF ~symbol_exists(file, SymbolName(m.text))
        THEN <<ValidationError(md_file, line_num,
                               CodeLinkMessage(m, <<" -> symbol not found">>), "broken_symbol")>>
        ELSE IF ~symbol_at_line(file, SymbolName(m.text), m.line_number, LinkTolerance)
        THEN <<ValidationError(md_file, line_num,
                               CodeLinkMessage(m, <<" -> symbol not at line ", ToString(m.line_number)>>), "broken_symbol")>>
        ELSE <<>>

SourceLinkMessage(m, outcome) ==
    <<"[", "Source", "]", "(">> \o m.path
       \o <<"#", "L", ToString(m.line_number), ")">> \o outcome

\* the error of one SOURCE_LINK_PATTERN match, if any
SourceLinkError(srcfs, mapfs, mapdirs, md_file, line_num, line, m) ==
    LET target == ResolveTarget(md_file, m.path)
        file_lines == TargetLength(srcfs, mapfs, target)
    IN  IF _is_in_code_context(line, m.start) THEN <<>>
        ELSE IF ~TargetExists(srcfs, mapfs, mapdirs, target)
        THEN <<ValidationError(md_file, line_num,
                               SourceLinkMessage(m, <<" -> file not found">>), "broken_symbol")>>
        ELSE IF file_lines > 0 /\ m.line_number > file_lines
        THEN <<ValidationError(md_file, line_num,
                               SourceLinkMessage(m, <<" -> line ", ToString(m.line_number),
                                                    " exceeds file length (",
                                                    ToString(file_lines), " lines)">>),
                               "broken_symbol")>>
        ELSE <<>>

CodeLinkErrorsOfLine(srcfs, mapfs, mapdirs, md_file, line_num) ==
    TheOne({Concat([k \in DOMAIN code |->
                CodeLinkError(srcfs, mapfs, mapdirs, md_file, line_num,
                              mapfs[md_file][line_num], code[k])])
            \o Concat([k \in DOMAIN source |->
                SourceLinkError(srcfs, mapfs, mapdirs, md_file, line_num,
                                mapfs[md_file][line_num], source[k])]) :
            code \in {FindIter("CODE_LINK_PATTERN", mapfs[md_file][line_num], 1)},
            source \in {FindIter("SOURCE_LINK_PATTERN", mapfs[md_file][line_num], 1)}})

CodeLinkErrorsOfDoc(srcfs, mapfs, mapdirs, md_file) ==
    TheOne({Concat([n \in DOMAIN scanned |->
                CodeLinkErrorsOfLine(srcfs, mapfs, mapdirs, md_file, scanned[n])]) :
            scanned \in {ScannedLines(mapfs[md_file])}})

check_code_links(srcfs, mapfs, mapdirs) ==
    LET files == MdFiles(mapfs)
    IN  Concat([n \in DOMAIN files |->
                   CodeLinkErrorsOfDoc(srcfs, mapfs, mapdirs, files[n])])

\* the size_limit error of one document, if any
SizeError(mapfs, q, level) ==
    LET line_count == Len(mapfs[q])
        limit == SIZE_LIMITS[level]
    IN  IF line_count > limit
        THEN <<ValidationError(q, 0,
                               <<"Exceeds ", level, " limit: ", ToString(line_count),
                                 " lines > ", ToString(limit)>>,
                               "size_limit")>>
        ELSE <<>>

check_size_limits(mapfs, mapdirs) ==
    LET files == MdFiles(mapfs)
        domain_files == SelectSeq(files, LAMBDA q : Len(q) = 2 /\ q[1] = "domains")
        module_files == SelectSeq(files, LAMBDA q : Len(q) >= 2 /\ q[1] = "modules")
    IN  (IF Exists(mapfs, ArchitectureMd) THEN SizeError(mapfs, ArchitectureMd, "L0")
         ELSE <<>>)
        \o (IF <<"domains">> \in mapdirs
            THEN Concat([n \in DOMAIN domain_files |-> SizeError(mapfs, domain_files[n], "L1")])
            ELSE <<>>)
        \o (IF <<"modules">> \in mapdirs
            THEN Concat([n \in DOMAIN module_files |-> SizeError(mapfs, module_files[n], "L2")])
            ELSE <<>>)

\* a mutant of validate_map: stops at the first check that finds something
validate_mapStoppingEarly(srcfs, mapfs, mapdirs) ==
    IF check_structure(mapfs, mapdirs) # <<>> THEN check_structure(mapfs, mapdirs)
    ELSE IF check_file_links(srcfs, mapfs, mapdirs) # <<>>
    THEN check_file_links(srcfs, mapfs, mapdirs)
    ELSE IF check_code_links(srcfs, mapfs, mapdirs) # <<>>
    THEN check_code_links(srcfs, mapfs, mapdirs)
    ELSE check_size_limits(mapfs, mapdirs)

validate_map(srcfs, mapfs, mapdirs) ==
    check_structure(mapfs, mapdirs)
    \o check_file_links(srcfs, mapfs, mapdirs)
    \o check_code_links(srcfs, mapfs, mapdirs)
    \o check_size_limits(mapfs, mapdirs)

(***************************************************************************)
(* code_map.py: cmd_validate.  The result carries the exit code, whether   *)
(* the checks ran, and the error lists of the four sections it prints.     *)
(***************************************************************************)
\* Path(args[0]).exists()
MapDirExists(arg, mapdirs) == arg = MapArg /\ <<>> \in mapdirs

NoChecks == [structure |-> <<>>, file_links |-> <<>>, code_links |-> <<>>, size |-> <<>>]

\* a mutant of ExitCode: always success
ExitCodeAlwaysZero(all_errors) == 0

\* return 1 if all_errors else 0
ExitCode(all_errors) == IF all_errors # <<>> THEN 1 ELSE 0

cmd_validate(args, srcfs, mapfs, mapdirs) ==
    IF Len(args) < 1
    THEN [exit |-> 1, ran |-> FALSE, checks |-> NoChecks, all_errors |-> <<>>]
    ELSE IF ~MapDirExists(args[1], mapdirs)
    THEN [exit |-> 1, ran |-> FALSE, checks |-> NoChecks, all_errors |-> <<>>]
    ELSE TheOne({[exit |-> ExitCode(structure_errors \o file_link_errors
                                       \o code_link_errors \o size_errors),
                  ran |-> TRUE,
                  checks |-> [structure |-> structure_errors,
                              file_links |-> file_link_errors,
                              code_links |-> code_link_errors,
                              size |-> size_errors],
                  all_errors |-> structure_errors \o file_link_errors
                                    \o code_link_errors \o size_errors] :
                 structure_errors \in {check_structure(mapfs, mapdirs)},
                 file_link_errors \in {check_file_links(srcfs, mapfs, mapdirs)},
                 code_link_errors \in {check_code_links(srcfs, mapfs, mapdirs)},
                 size_errors \in {check_size_limits(mapfs, mapdirs)}})

(***************************************************************************)
(* The validator at work.  The source tree holds core.py and a file that   *)
(* does not parse; the map directory starts as a small valid map and is    *)
(* edited by hand, one document or directory at a time, between the runs   *)
(* of `validate` and the calls of validate_map.                            *)
(***************************************************************************)
Core == <<"core.py">>

\* core.py: class Calculator (line 3) with method add (line 10) holding the
\* nested function helper (line 12); async def divide (line 20); a second,
\* module-level add (line 30)
CoreTree ==
    [parses |-> TRUE, doc |-> Some(<<"Calculator core.">>),
     body |-> <<Node("class", "Calculator", 3, Some(<<"A calculator.">>), "",
                     <<Node("def", "add", 10, None, "(self, a, b)",
                            <<Node("def", "helper", 12, None, "(x)", <<>>)>>)>>),
                Node("async def", "divide", 20, None, "(a, b)", <<>>),
                Node("def", "add", 30, None, "(a, b)", <<>>)>>]

\* the path texts of the links: from the map root and from modules/calculator
FromRoot(name) == Join(<<"..", "..", "src", "calculator", name>>)

FromModule(name) == Join(<<"..", "..", "..", "..", "src", "calculator", name>>)

ProbeFileLink(text, path) == <<"See ", "[", text, "]", "(">> \o path \o <<")", ".">>

ProbeCodeLink(name, path, n) ==
    <<"- ", "[", BT, name, BT, "]", "(">> \o path \o <<"#", "L", ToString(n), ")">>

ProbeSourceLink(path, n) ==
    <<"[", "Source", "]", "(">> \o path \o <<"#", "L", ToString(n), ")">>

\* n lines of prose
Lines(n) == [i \in 1..n |-> <<"text">>]

\* the valid map the edits start from; every document ends with a newline
BaseReadme ==
    <<<<"# Code Map">>, Blank,
      ProbeFileLink("Architecture", <<"ARCHITECTURE.md">>),
      ProbeFileLink("calculator", Join(<<"domains", "calculator.md">>))>>

BaseArchitecture ==
    <<<<"# Architecture">>, Blank,
      ProbeFileLink("calculator", Join(<<"domains", "calculator.md">>))>>

BaseDomain ==
    <<<<"# calculator">>, Blank,
      ProbeFileLink("core", Join(<<"..", "modules", "calculator", "core.md">>))>>

BaseCore ==
    <<<<"# core">>, Blank,
      ProbeCodeLink("Calculator", FromModule("core.py"), 3),
      ProbeSourceLink(FromModule("core.py"), 3)>>

BaseMap ==
    (ReadmeMd :> BaseReadme \o <<Blank>>) @@ (ArchitectureMd :> BaseArchitecture \o <<Blank>>)
    @@ (DomainDoc :> BaseDomain \o <<Blank>>) @@ (CoreDoc :> BaseCore \o <<Blank>>)

BaseDirs == {<<>>, <<"domains">>, <<"modules">>, <<"modules", "calculator">>}

\* the lines a hand edit appends to README.md: ordinary links
ReadmeProbes ==
    {<<ProbeFileLink("guide", <<"missing.md">>)>>,
     <<ProbeFileLink("guide", <<"missing.md", "#", "usage">>)>>,
     <<ProbeFileLink("core", Join(<<"modules", "calculator", "core.md">>))>>,
     <<ProbeFileLink("domains", <<"domains">>)>>,
     <<ProbeFileLink("site", <<"https:", "/", "/", "example.com">>)>>,
     <<ProbeFileLink("mail", <<"mailto:", "dev@example.com">>)>>,
     <<ProbeFileLink("core", FromRoot("core.py"))>>,
     <<ProbeFileLink("core", FromRoot("missing.py"))>>,
     <<<<"Use ", BT>> \o ProbeFileLink("guide", <<"missing.md">>) \o <<BT>>>>,
     <<<<BT, BT, BT>>, ProbeFileLink("guide", <<"missing.md">>), <<BT, BT, BT>>>>,
     <<ProbeFileLink("guide", <<"missing.md">>) \o ProbeFileLink("other", <<"gone.md">>)>>,
     <<ProbeCodeLink("add", <<"missing.md">>, 3)>>,
     <<ProbeSourceLink(<<"missing.md">>, 3)>>,
     <<<<BT, BT, "code", BT, BT>> \o ProbeFileLink("guide", <<"missing.md">>)>>,
     <<<<BT, BT, "code ">> \o ProbeFileLink("guide", <<"missing.md">>) \o <<BT, BT>>>>,
     <<<<BT, "a", BT>> \o ProbeFileLink("guide", <<"missing.md">>)>>,
     <<<<"x ", BT, BT, BT>> \o ProbeFileLink("guide", <<"missing.md">>)>>,
     <<<<BT, BT, "a", BT, BT, BT, "b ">> \o ProbeFileLink("guide", <<"missing.md">>)>>}

\* the lines a hand edit appends to modules/calculator/core.md: code links
CoreProbes ==
    {<<ProbeCodeLink("add", FromModule("core.py"), n)>> : n \in {4, 5, 10, 15, 16, 25, 36}}
    \cup {<<ProbeCodeLink("Calculator", FromModule("core.py"), 9)>>,
          <<ProbeCodeLink("helper", FromModule("core.py"), 12)>>,
          <<ProbeCodeLink("divide", FromModule("core.py"), 20)>>,
          <<ProbeCodeLink("divide", FromModule("core.py"), 30)>>,
          <<ProbeCodeLink("ghost", FromModule("core.py"), 10)>>,
          <<ProbeCodeLink("add", FromModule("missing.py"), 10)>>,
          <<ProbeCodeLink("add", FromModule("broken.py"), 10)>>,
          <<<<"Use ", BT>> \o ProbeCodeLink("ghost", FromModule("core.py"), 10) \o <<BT>>>>,
          <<<<BT, BT, BT>>, ProbeCodeLink("ghost", FromModule("core.py"), 10), <<BT, BT, BT>>>>,
          <<ProbeCodeLink("ghost", FromModule("core.py"), 10)
               \o ProbeCodeLink("add", FromModule("core.py"), 36)>>,
          <<<<BT, BT, "code ">> \o ProbeCodeLink("ghost", FromModule("core.py"), 10)
               \o <<BT, BT>>>>,
          <<<<BT, BT, "code", BT, BT>> \o ProbeCodeLink("ghost", FromModule("core.py"), 10)>>,
          <<<<BT, "code ">> \o ProbeSourceLink(FromModule("missing.py"), 1) \o <<BT>>>>,
          <<ProbeSourceLink(FromModule("core.py"), 32)>>,
          <<ProbeSourceLink(FromModule("core.py"), 33)>>,
          <<ProbeSourceLink(FromModule("missing.py"), 1)>>}

\* documents around a size limit: with and without the final newline
SizeProbes(limit) ==
    {Lines(limit - 1) \o <<Blank>>, Lines(limit), Lines(limit) \o <<Blank>>, Lines(limit + 1)}

\* a document with a broken link, a broken code link and too many lines
BadArchitecture ==
    <<ProbeFileLink("guide", <<"missing.md">>),
      ProbeCodeLink("ghost", FromRoot("core.py"), 10)>> \o Lines(SIZE_LIMITS["L0"])

\* the documents a hand edit can put at path p
ProbeDocs(p) ==
    CASE p = ReadmeMd -> {BaseReadme \o probe \o <<Blank>> : probe \in ReadmeProbes}
                            \cup {BaseMap[ReadmeMd]}
      [] p = CoreDoc -> {BaseCore \o probe \o <<Blank>> : probe \in CoreProbes}
                           \cup {BaseMap[CoreDoc]}
      [] p = ArchitectureMd -> SizeProbes(SIZE_LIMITS["L0"])
                                  \cup {BadArchitecture, BaseMap[ArchitectureMd]}
      [] p = DomainDoc -> {BaseMap[DomainDoc]}
      [] p = BigDomainDoc -> SizeProbes(SIZE_LIMITS["L1"])
      [] p = BigModuleDoc -> SizeProbes(SIZE_LIMITS["L2"])
      [] OTHER -> {}

ProbePaths == {ReadmeMd, ArchitectureMd, DomainDoc, BigDomainDoc, CoreDoc, BigModuleDoc}

\* most hand edits that separate the map directory from the valid map
MaxChanges == 2

\* the file at p as an Optional
FileAt(fs, p) == IF p \in DOMAIN fs THEN Some(fs[p]) ELSE None

\* the number of hand edits that separate a map directory from the valid map
Changes(mapfs, mapdirs) ==
    Cardinality({d \in BaseDirs : d \notin mapdirs /\ (d = <<>> \/ Parent(d) \in mapdirs)})
    + Cardinality({p \in ProbePaths :
                      Parent(p) \in mapdirs /\ FileAt(mapfs, p) # FileAt(BaseMap, p)})

ValidateArgLists == {<<>>, <<MapArg>>, <<MissingArg>>}

InitValidate ==
    /\ src = (Core :> CoreTree) @@ (Broken :> BrokenTree)
    /\ map = BaseMap
    /\ mapDirs = BaseDirs
    /\ last = Idle
    /\ succ = 0

\* `code_map.py validate <args>`
CmdValidate(args) ==
    \E r \in {cmd_validate(args, src, map, mapDirs)} :
        /\ last' = [cmd |-> "validate", args |-> args, exit |-> r.exit, ran |-> r.ran,
                    checks |-> r.checks, all_errors |-> r.all_errors]
        /\ succ' = 0
        /\ UNCHANGED <<src, map, mapDirs>>

\* a library call of validate_map(map_dir) on the existing map directory
ValidateMap ==
    /\ <<>> \in mapDirs
    /\ \E errors \in {validate_map(src, map, mapDirs)} :
          last' = [cmd |-> "validate_map", errors |-> errors]
    /\ succ' = 0
    /\ UNCHANGED <<src, map, mapDirs>>

WriteProbe(p, doc) ==
    /\ Parent(p) \in mapDirs
    /\ FileAt(map, p) # Some(doc)
    /\ \E written \in {(p :> doc) @@ map} :
          /\ Changes(written, mapDirs) <= MaxChanges
          /\ map' = written
    /\ Edited
    /\ UNCHANGED <<src, mapDirs>>

RemoveDoc(p) ==
    /\ p \in DOMAIN map
    /\ \E kept \in {[q \in DOMAIN map \ {p} |-> map[q]]} :
          /\ Changes(kept, mapDirs) <= MaxChanges
          /\ map' = kept
    /\ Edited
    /\ UNCHANGED <<src, mapDirs>>

MakeDir(d) ==
    /\ d \notin mapDirs
    /\ d = <<>> \/ Parent(d) \in mapDirs
    /\ Changes(map, mapDirs \cup {d}) <= MaxChanges
    /\ mapDirs' = mapDirs \cup {d}
    /\ Edited
    /\ UNCHANGED <<src, map>>

\* rm -r of directory d of the map directory (d = <<>>: the map directory)
RemoveTree(d) ==
    /\ d \in mapDirs
    /\ \E dirs \in {{e \in mapDirs : ~StartsWith(e, d)}} :
       \E kept \in {[q \in {q \in DOMAIN map : ~StartsWith(q, d)} |-> map[q]]} :
          /\ Changes(kept, dirs) <= MaxChanges
          /\ mapDirs' = dirs
          /\ map' = kept
    /\ Edited
    /\ UNCHANGED src

NextValidate ==
    \/ \E args \in ValidateArgLists : CmdValidate(args)
    \/ ValidateMap
    \/ \E p \in ProbePaths : \E doc \in ProbeDocs(p) : WriteProbe(p, doc)
    \/ \E p \in ProbePaths : RemoveDoc(p)
    \/ \E d \in BaseDirs : MakeDir(d)
    \/ \E d \in BaseDirs : RemoveTree(d)

SpecValidate == InitValidate /\ [][NextValidate]_vars

\* the check results of the last `validate` run that reached the checks
Validated == last.cmd = "validate" /\ last.ran

(***************************************************************************)
(* C12 to C18: the validator.                                              *)
(***************************************************************************)
\* the declarations (name and line) of the functions, classes and methods
\* below a node list, at any depth, async ones included
RECURSIVE Declarations(_)
Declarations(body) ==
    UNION {(IF body[i].type \in {"def", "async def", "class"}
            THEN {[name |-> body[i].name, line |-> body[i].lineno]} ELSE {})
           \cup Declarations(body[i].body) : i \in DOMAIN body}

\* the declarations of the file a link resolves to
DeclaredAt(srcfs, target) ==
    IF IsNone(SourceAt(srcfs, target)) \/ ~Val(SourceAt(srcfs, target)).parses THEN {}
    ELSE Declarations(Val(SourceAt(srcfs, target)).body)

\* the links of a pattern in the documents of the map directory that lie
\* outside fenced blocks and inline code: the document, the line, the match
LinksOf(pattern, mapfs) ==
    UNION {UNION {{[file |-> q, line |-> i, m |-> m] :
                     m \in {m \in Range(FindIter(pattern, mapfs[q][i], 1)) :
                              ~_is_in_code_context(mapfs[q][i], m.start)}} :
                  i \in Range(ScannedLines(mapfs[q]))} :
           q \in DOMAIN mapfs}

\* the messages of the errors of one type that a check reported at a line of
\* a document and that begin with the text of a link
ReportedFor(errors, error_type, file, line, link_text) ==
    LET about == SelectSeq(errors, LAMBDA e :
                     /\ e.file = file /\ e.line = line /\ e.error_type = error_type
                     /\ StartsWith(e.message, link_text))
    IN  [n \in DOMAIN about |-> SubSeq(about[n].message, Len(link_text) + 1,
                                       Len(about[n].message))]

\* what the ordered rule says about a code link: file, then name, then line
CodeLinkVerdict(srcfs, mapfs, mapdirs, l) ==
    LET target == ResolveTarget(l.file, l.m.path)
        named == {d \in DeclaredAt(srcfs, target) : <<d.name>> = l.m.text}
    IN  IF ~TargetExists(srcfs, mapfs, mapdirs, target)
        THEN <<<<" -> file not found">>>>
        ELSE IF named = {} THEN <<<<" -> symbol not found">>>>
        ELSE IF \A d \in named : Abs(d.line - l.m.line_number) > LinkTolerance
        THEN <<<<" -> symbol not at line ", ToString(l.m.line_number)>>>>
        ELSE <<>>

\* C12: after a validate run, every code link outside fenced blocks and
\* inline code has at most one broken_symbol error, chosen in the order: file
\* not found, symbol not found (no function, class or method of that name is
\* declared in the target), symbol not at line N, and none otherwise.
C12_CodeLinkErrorsInOrder ==
    Validated =>
        \A l \in LinksOf("CODE_LINK_PATTERN", map) :
            ReportedFor(last.checks.code_links, "broken_symbol", l.file, l.line,
                        CodeLinkMessage(l.m, <<>>))
            = CodeLinkVerdict(src, map, mapDirs, l)

\* C13: after a validate run, a code link naming line N has no error when a
\* declaration of its symbol lies at a line L with |L - N| <= 5, and has the
\* error "symbol not at line N" when the symbol is declared and every
\* declaration has |L - N| >= 6; with tolerance 0, symbol_at_line accepts a
\* line exactly when a declaration of the name is at that line.
C13_ToleranceOfFive ==
    Validated =>
        \A l \in LinksOf("CODE_LINK_PATTERN", map) :
            LET target == ResolveTarget(l.file, l.m.path)
                named == {d \in DeclaredAt(src, target) : <<d.name>> = l.m.text}
                reported == ReportedFor(last.checks.code_links, "broken_symbol",
                                        l.file, l.line, CodeLinkMessage(l.m, <<>>))
            IN  /\ (\E d \in named : Abs(d.line - l.m.line_number) <= 5)
                       => reported = <<>>
                /\ (named # {} /\ \A d \in named : Abs(d.line - l.m.line_number) >= 6)
                       => reported = <<<<" -> symbol not at line ",
                                         ToString(l.m.line_number)>>>>
                /\ named # {}
                       => (symbol_at_line(SourceAt(src, target), SymbolName(l.m.text),
                                          l.m.line_number, 0)
                           <=> \E d \in named : d.line = l.m.line_number)

\* the text of an ordinary link as an error message shows it
FileLinkText(m) == <<"[">> \o m.text \o <<"]", "(">> \o m.path \o <<")">>

\* C14: after a validate run, every [text](path) link outside fenced blocks
\* and inline code that is neither external nor line-pinned has exactly one
\* broken_link error at its line when its resolved path does not exist, and
\* none when it exists.
C14_BrokenFileLinksReported ==
    Validated =>
        \A l \in LinksOf("FILE_LINK_PATTERN", map) :
            (~IsExternal(l.m.path) /\ ~HasHashL(l.m.all)) =>
                ReportedFor(last.checks.file_links, "broken_link", l.file, l.line,
                            FileLinkText(l.m))
                = IF TargetExists(src, map, mapDirs, ResolveTarget(l.file, l.m.path))
                  THEN <<>>
                  ELSE <<<<" -> file not found">>>>

\* the number of lines of a document: a final newline ends the last line, it
\* does not begin another one
TextLines(doc) == IF doc[Len(doc)] = Blank THEN Len(doc) - 1 ELSE Len(doc)

\* the tiers of the documents that have a size limit
Tiered(mapfs) ==
    {[file |-> q, level |-> "L0"] : q \in {ArchitectureMd} \cap DOMAIN mapfs}
    \cup {[file |-> q, level |-> "L1"] :
             q \in {q \in DOMAIN mapfs : Len(q) = 2 /\ q[1] = "domains"}}
    \cup {[file |-> q, level |-> "L2"] :
             q \in {q \in DOMAIN mapfs : Len(q) >= 2 /\ q[1] = "modules"}}

\* C15: after a validate run, every ARCHITECTURE.md, domains/*.md and
\* modules/**/*.md document has exactly one size_limit error, stating its
\* line count and the limit, when it has more lines than its tier allows
\* (500, 300, 200), and none when it has the limit's number of lines or fewer.
C15_SizeLimitsAtTheBoundary ==
    Validated =>
        \A t \in Tiered(map) :
            ReportedFor(last.checks.size, "size_limit", t.file, 0, <<>>)
            = IF TextLines(map[t.file]) > SIZE_LIMITS[t.level]
              THEN <<<<"Exceeds ", t.level, " limit: ", ToString(TextLines(map[t.file])),
                       " lines > ", ToString(SIZE_LIMITS[t.level])>>>>
              ELSE <<>>

\* the required artifacts that are absent, in the order of the checks; the
\* third one is given by whether its directory is present
MissingArtifacts(mapfs, directory_present) ==
    (IF ReadmeMd \in DOMAIN mapfs THEN <<>> ELSE <<"README.md">>)
    \o (IF ArchitectureMd \in DOMAIN mapfs THEN <<>> ELSE <<"ARCHITECTURE.md">>)
    \o (IF directory_present THEN <<>> ELSE <<"domains">>)

\* one structure error, with line 0, per missing artifact, naming it
OneStructureErrorEach(errors, missing) ==
    /\ Len(errors) = Len(missing)
    /\ \A n \in DOMAIN missing :
          /\ errors[n].error_type = "structure"
          /\ errors[n].line = 0
          /\ errors[n].file = map_dir \o <<missing[n]>>

\* C16 as stated: after a validate run, check_structure has returned one
\* structure error with line 0 per absent artifact, the artifacts being the
\* index document, the architecture document and a "domains" or "modules"
\* directory, and no error when all are present.
C16_DomainsOrModulesSuffices ==
    Validated =>
        OneStructureErrorEach(last.checks.structure,
            MissingArtifacts(map, <<"domains">> \in mapDirs \/ <<"modules">> \in mapDirs))

\* C16 amended: after a validate run, check_structure has returned one
\* structure error with line 0 per absent artifact, the artifacts being
\* README.md, ARCHITECTURE.md and the "domains" directory (a "modules"
\* directory does not stand in for it), and no error when all are present.
C16_DomainsRequired ==
    Validated =>
        OneStructureErrorEach(last.checks.structure,
                              MissingArtifacts(map, <<"domains">> \in mapDirs))

\* C16 witness: validate has run on a map directory without README.md and
\* without domains/ but with modules/, and reported both
C16_IndexAndDomainsMissing ==
    /\ Validated
    /\ ReadmeMd \notin DOMAIN map
    /\ <<"domains">> \notin mapDirs
    /\ <<"modules">> \in mapDirs
    /\ Len(last.checks.structure) = 2

RunStarts(text) ==
    {k \in DOMAIN text : text[k] = BT /\ (k = 1 \/ text[k - 1] # BT)}

RunLength(text, k) ==
    LET after == {j \in k..Len(text) : text[j] # BT}
    IN  IF after = {} THEN Len(text) - k + 1
        ELSE (CHOOSE j \in after : \A h \in after : j <= h) - k

\* the sum of f over the set S of positions
RECURSIVE SumOver(_, _)
SumOver(f, S) ==
    IF S = {} THEN 0
    ELSE LET k == CHOOSE k \in S : TRUE IN f[k] + SumOver(f, S \ {k})

\* a run of r backquotes holds r \div 2 pairs and leaves r % 2 single ones
DoublePairs(text) ==
    SumOver([k \in RunStarts(text) |-> RunLength(text, k) \div 2], RunStarts(text))

SinglesLeft(text) ==
    SumOver([k \in RunStarts(text) |-> RunLength(text, k) % 2], RunStarts(text))

InsideInlineCode(line, start) ==
    \/ DoublePairs(SubSeq(line, 1, start - 1)) % 2 = 1
    \/ SinglesLeft(SubSeq(line, 1, start - 1)) % 2 = 1

\* every match of a pattern on the scanned lines, in inline code or not
MatchesOf(pattern, mapfs) ==
    UNION {UNION {{[file |-> q, line |-> i, m |-> m] :
                     m \in Range(FindIter(pattern, mapfs[q][i], 1))} :
                  i \in Range(ScannedLines(mapfs[q]))} :
           q \in DOMAIN mapfs}

\* C21: a link match counts as inside inline code exactly when the text
\* before it on its line holds an odd number of double-backquote pairs or,
\* those removed, an odd number of single backquotes; after a validate run a
\* match inside inline code has no error from either scanner, and a match
\* outside it whose target does not exist has one.
C21_InlineCodeSkipped ==
    Validated =>
        /\ \A pattern \in {"FILE_LINK_PATTERN", "CODE_LINK_PATTERN", "SOURCE_LINK_PATTERN"} :
           \A l \in MatchesOf(pattern, map) :
              _is_in_code_context(map[l.file][l.line], l.m.start)
                 <=> InsideInlineCode(map[l.file][l.line], l.m.start)
        /\ \A l \in MatchesOf("FILE_LINK_PATTERN", map) :
              LET missing == /\ ~IsExternal(l.m.path) /\ ~HasHashL(l.m.all)
                             /\ ~EndsWithPy(l.m.path)
                             /\ ~TargetExists(src, map, mapDirs,
                                              ResolveTarget(l.file, l.m.path))
                  reported == ReportedFor(last.checks.file_links, "broken_link",
                                          l.file, l.line, FileLinkText(l.m))
              IN  missing =>
                     (reported = <<>>
                         <=> InsideInlineCode(map[l.file][l.line], l.m.start))
        /\ \A l \in MatchesOf("CODE_LINK_PATTERN", map) :
              LET reported == ReportedFor(last.checks.code_links, "broken_symbol",
                                          l.file, l.line, CodeLinkMessage(l.m, <<>>))
              IN  ~TargetExists(src, map, mapDirs, ResolveTarget(l.file, l.m.path)) =>
                     (reported = <<>>
                         <=> InsideInlineCode(map[l.file][l.line], l.m.start))
        /\ \A l \in MatchesOf("SOURCE_LINK_PATTERN", map) :
              LET reported == ReportedFor(last.checks.code_links, "broken_symbol",
                                          l.file, l.line, SourceLinkMessage(l.m, <<>>))
              IN  ~TargetExists(src, map, mapDirs, ResolveTarget(l.file, l.m.path)) =>
                     (reported = <<>>
                         <=> InsideInlineCode(map[l.file][l.line], l.m.start))

\* C21 witness: validate has run over a link that follows an opened and not
\* closed double-backquote pair, and reported nothing for it
C21_LinkAfterOpenDoublePair ==
    /\ Validated
    /\ \E l \in MatchesOf("FILE_LINK_PATTERN", map) :
          /\ DoublePairs(SubSeq(map[l.file][l.line], 1, l.m.start - 1)) = 1
          /\ SinglesLeft(SubSeq(map[l.file][l.line], 1, l.m.start - 1)) = 0
          /\ ~TargetExists(src, map, mapDirs, ResolveTarget(l.file, l.m.path))
          /\ last.checks.file_links = <<>>

(***************************************************************************)
(* differ.py: parse_existing_map, and renderer.py: render_map_file.  A     *)
(* text with several lines is a token sequence with "\n" tokens; the       *)
(* markers "# ", "## ", "### ", "- ", "|", ":" and "**" are tokens of      *)
(* their own.                                                              *)
(***************************************************************************)
\* "\n".join(lines)
JoinLines(ls) ==
    Concat([i \in DOMAIN ls |-> IF i < Len(ls) THEN ls[i] \o <<"\n">> ELSE ls[i]])

\* text.split("\n")
SplitLines(text) ==
    LET cuts == <<0>> \o Ascending({k \in DOMAIN text : text[k] = "\n"}) \o <<Len(text) + 1>>
    IN  [n \in 1..(Len(cuts) - 1) |-> SubSeq(text, cuts[n] + 1, cuts[n + 1] - 1)]

\* the first position from `from` on whose token is not a space, 0 if none
FirstNonSpace(line, from) ==
    LET hits == {k \in from..Len(line) : line[k] # " "}
    IN  IF hits = {} THEN 0 ELSE CHOOSE k \in hits : \A h \in hits : k <= h

\* SECTION_HEADER_PATTERN.match(line)
HeaderMatch(line) ==
    IF TokenAt(line, 1) = "### " /\ CodeLinkAt(line, 2).matched
    THEN [matched |-> TRUE, name |-> SymbolName(CodeLinkAt(line, 2).text),
          line_number |-> CodeLinkAt(line, 2).line_number, desc |-> <<>>]
    ELSE NoMatch

\* METHOD_PATTERN.match(line)
MethodMatch(line) ==
    IF TokenAt(line, 1) = "- " /\ CodeLinkAt(line, 2).matched
       /\ TokenAt(line, CodeLinkAt(line, 2).stop + 1) = ":"
    THEN [matched |-> TRUE, name |-> SymbolName(CodeLinkAt(line, 2).text),
          line_number |-> CodeLinkAt(line, 2).line_number,
          desc |-> Strip(SubSeq(line, CodeLinkAt(line, 2).stop + 2, Len(line)))]
    ELSE NoMatch

\* TABLE_ROW_PATTERN.match(line)
TableMatch(line) ==
    LET k == FirstNonSpace(line, 2)
        m == CodeLinkAt(line, k)
        bar == IF m.matched THEN FirstNonSpace(line, m.stop + 1) ELSE 0
    IN  IF TokenAt(line, 1) = "|" /\ k > 0 /\ m.matched
           /\ TokenAt(line, bar) = "|" /\ line[Len(line)] = "|" /\ Len(line) > bar + 1
        THEN [matched |-> TRUE, name |-> SymbolName(m.text),
              line_number |-> m.line_number,
              desc |-> Strip(SubSeq(line, bar + 1, Len(line) - 1))]
        ELSE NoMatch

\* line.startswith("##") and line.startswith("**")
StartsWithHashes(line) == TokenAt(line, 1) \in {"## ", "### ", "#### ", "##"}

StartsWithStars(line) == TokenAt(line, 1) = "**"

\* the file description: the lines after the first "# " line up to the next
\* "## " line
ParsedFileDescription(lines) ==
    LET titles == {i \in DOMAIN lines : TokenAt(lines[i], 1) = "# "}
        title == CHOOSE i \in titles : \A h \in titles : i <= h
        ends == {i \in DOMAIN lines : i > title /\ TokenAt(lines[i], 1) = "## "}
        end == IF ends = {} THEN Len(lines) + 1
               ELSE CHOOSE i \in ends : \A h \in ends : i <= h
    IN  IF titles = {} THEN <<>>
        ELSE Strip(JoinLines(SubSeq(lines, title + 1, end - 1)))

\* the assignments to result.sections in the order they happen: a list item
\* or a table row is stored at its line, a header's section when the next
\* header is met or the file ends
SectionStores(lines) ==
    LET headers == {i \in DOMAIN lines : HeaderMatch(lines[i]).matched}
        items == {i \in DOMAIN lines \ headers : MethodMatch(lines[i]).matched}
        rows == {i \in DOMAIN lines \ (headers \cup items) : TableMatch(lines[i]).matched}
        NextHeader(h) ==
            IF \E k \in headers : k > h
            THEN CHOOSE k \in headers : k > h /\ \A j \in headers : j > h => k <= j
            ELSE Len(lines) + 1
        Collected(h) ==
            Ascending({j \in (h + 1)..(NextHeader(h) - 1) :
                         /\ j \notin items \cup rows
                         /\ ~StartsWithHashes(lines[j])
                         /\ ~StartsWithStars(lines[j])})
    IN  {[time |-> NextHeader(h), name |-> HeaderMatch(lines[h]).name,
          line_number |-> HeaderMatch(lines[h]).line_number,
          description |-> Strip(JoinLines([n \in DOMAIN Collected(h) |->
                                              lines[Collected(h)[n]]]))] : h \in headers}
        \cup {[time |-> i, name |-> MethodMatch(lines[i]).name,
               line_number |-> MethodMatch(lines[i]).line_number,
               description |-> MethodMatch(lines[i]).desc] : i \in items}
        \cup {[time |-> i, name |-> TableMatch(lines[i]).name,
               line_number |-> TableMatch(lines[i]).line_number,
               description |-> TableMatch(lines[i]).desc] : i \in rows}

\* None when the file does not exist
parse_existing_map(mapfs, map_path) ==
    IF ~Exists(mapfs, map_path) THEN None
    ELSE TheOne({Some(ParsedMapFile(
                     file_desc, is_placeholder(file_desc),
                     [n \in {e.name : e \in stores} |->
                         LET e == CHOOSE e \in stores :
                                     /\ e.name = n
                                     /\ \A o \in stores : o.name = n => o.time <= e.time
                         IN  ParsedSection(n, e.line_number, e.description,
                                           is_placeholder(e.description))])) :
                 file_desc \in {ParsedFileDescription(mapfs[map_path])},
                 stores \in {SectionStores(mapfs[map_path])}})

\* all_sections.index(s)
IndexOf(all_sections, s) ==
    CHOOSE i \in DOMAIN all_sections :
        all_sections[i] = s /\ \A j \in 1..(i - 1) : all_sections[j] # s

_is_method_of_class(method, cls, all_sections) ==
    LET cls_idx == IndexOf(all_sections, cls)
        method_idx == IndexOf(all_sections, method)
    IN  /\ method_idx > cls_idx
        /\ \A i \in (cls_idx + 1)..(method_idx - 1) : all_sections[i].symbol_kind # "class"

\* the header link of a section
SectionLink(s, rel_src) ==
    <<"[", BT, s.symbol_name, BT, "]", "(">> \o Join(rel_src)
       \o <<"#", "L", ToString(s.line_number), ")">>

RenderedClass(cls, map_file, rel_src) ==
    LET class_methods ==
            SelectSeq(map_file.sections, LAMBDA s :
                s.symbol_kind = "method" /\ _is_method_of_class(s, cls, map_file.sections))
    IN  <<<<"### ">> \o SectionLink(cls, rel_src), Blank>>
        \o SplitLines(cls.description) \o <<Blank>>
        \o (IF class_methods # <<>>
            THEN <<<<"**", "Methods:", "**">>, Blank>>
                 \o Concat([i \in DOMAIN class_methods |->
                       SplitLines(<<"- ">> \o SectionLink(class_methods[i], rel_src)
                                     \o <<":", " ">> \o class_methods[i].description)])
                 \o <<Blank>>
            ELSE <<>>)

RenderedFunction(func, rel_src) ==
    <<<<"### ">> \o SectionLink(func, rel_src), Blank>>
    \o SplitLines(func.description) \o <<Blank>>

render_map_file(map_file, src_base, map_base) ==
    LET rel_src == compute_relative_path(map_base \o map_file.map_path,
                                         src_base \o map_file.source_path)
        classes == SelectSeq(map_file.sections, LAMBDA s : s.symbol_kind = "class")
        functions == SelectSeq(map_file.sections, LAMBDA s : s.symbol_kind = "function")
    IN  RStripDoc(
            <<<<"# ", Name(map_file.source_path)>>, Blank>>
            \o SplitLines(map_file.file_description) \o <<Blank>>
            \o (IF classes # <<>>
                THEN <<<<"## ", "Classes">>, Blank>>
                     \o Concat([i \in DOMAIN classes |->
                                   RenderedClass(classes[i], map_file, rel_src)])
                ELSE <<>>)
            \o (IF functions # <<>>
                THEN <<<<"## ", "Functions">>, Blank>>
                     \o Concat([i \in DOMAIN functions |->
                                   RenderedFunction(functions[i], rel_src)])
                ELSE <<>>))
        \o <<Blank>>

(***************************************************************************)
(* The map files as the persistence of the descriptions: a module document *)
(* is parsed, merged with the symbols of its source file, rendered and     *)
(* written back; between the runs people edit the documents and the        *)
(* sources.                                                                *)
(***************************************************************************)
\* the map file of source file f
MapPathOf(f) == <<"modules", "calculator", MdName(Stem(f))>>

ProseFirst == <<"First.">>

ProseSecond == <<"Second.">>

ProseBold == <<"**", "Deprecated.", "**">>

HandHeader(name, path, n) == <<"### ">> \o Tail(ProbeCodeLink(name, path, n))

HandItem(name, path, n, desc) == ProbeCodeLink(name, path, n) \o <<":", " ">> \o desc

HandRow(name, path, n, desc) ==
    <<"|", " ">> \o Tail(ProbeCodeLink(name, path, n)) \o <<" ", "|", " ">> \o desc
       \o <<" ", "|">>

HandTop == <<<<"# ", "ops.py">>, Blank, <<"Arithmetic, by hand.">>, Blank>>

\* documents written by hand for ops.py: one symbol stored twice in mixed
\* shapes, table rows, a description of two lines
HandOpsDocs ==
    {HandTop \o <<<<"## ", "Functions">>, Blank,
                  HandHeader("add", FromModule("ops.py"), 1), Blank, ProseFirst, Blank,
                  HandItem("add", FromModule("ops.py"), 5, ProseSecond), Blank>>,
     HandTop \o <<HandItem("add", FromModule("ops.py"), 5, ProseSecond), Blank,
                  HandHeader("add", FromModule("ops.py"), 1), Blank, ProseFirst, Blank>>,
     HandTop \o <<HandHeader("add", FromModule("ops.py"), 1), Blank, ProseFirst, Blank,
                  HandHeader("add", FromModule("ops.py"), 5), Blank, ProseSecond, Blank>>,
     HandTop \o <<HandHeader("add", FromModule("ops.py"), 1), Blank, ProseFirst, Blank,
                  HandRow("add", FromModule("ops.py"), 5, ProseSecond), Blank>>,
     HandTop \o <<<<"## ", "Functions">>, Blank,
                  HandRow("add", FromModule("ops.py"), 1, ProseFirst),
                  HandRow("add", FromModule("ops.py"), 5, ProseSecond),
                  HandRow("divide", FromModule("ops.py"), 2, HumanProse), Blank>>,
     HandTop \o <<<<"## ", "Functions">>, Blank,
                  HandRow("add", FromModule("ops.py"), 1, ProseBold), Blank>>,
     HandTop \o <<HandHeader("add", FromModule("ops.py"), 1), Blank, ProseFirst,
                  ProseSecond, Blank>>}

\* a document written by hand for core.py: the method add of Calculator and
\* the function add, each with a description of its own
HandCoreDoc ==
    <<<<"# ", "core.py">>, Blank, <<"The core, by hand.">>, Blank,
      <<"## ", "Classes">>, Blank,
      HandHeader("Calculator", FromModule("core.py"), 3), Blank, <<"The calculator.">>, Blank,
      <<"**", "Methods:", "**">>, Blank,
      HandItem("add", FromModule("core.py"), 10, <<"Adds, as a method.">>), Blank,
      <<"## ", "Functions">>, Blank,
      HandHeader("divide", FromModule("core.py"), 20), Blank, <<"Divides.">>, Blank,
      HandHeader("add", FromModule("core.py"), 30), Blank, <<"Adds, as a function.">>, Blank>>

HandDocs(q) ==
    CASE q = OpsDoc -> HandOpsDocs
      [] q = CoreDoc -> {HandCoreDoc}
      [] OTHER -> {}

DifferFiles == {Ops, Core}

InitDiffer ==
    /\ src = (Ops :> OpsTree(<<AddNode>>)) @@ (Core :> CoreTree)
    /\ map = <<>>
    /\ mapDirs = BaseDirs
    /\ last = Idle
    /\ succ = 0

\* parse_existing_map(map_dir / map_path)
ParseExistingMap(q) ==
    /\ \E parsed \in {parse_existing_map(map, q)} :
          last' = [cmd |-> "parse", map_path |-> q, parsed |-> parsed]
    /\ succ' = 0
    /\ UNCHANGED <<src, map, mapDirs>>

\* the document of f is parsed, merged with the symbols of f, rendered and
\* written
WriteMapFile(f) ==
    /\ f \in DOMAIN src
    /\ \E existing \in {parse_existing_map(map, MapPathOf(f))} :
       \E r \in {merge_maps(existing, extract_symbols(Some(src[f])), f, MapPathOf(f))} :
          /\ map' = (MapPathOf(f) :> render_map_file(r.map_file, src_dir, map_dir)) @@ map
          /\ last' = [cmd |-> "write", source_path |-> f, map_path |-> MapPathOf(f),
                      before |-> FileAt(map, MapPathOf(f)), existing |-> existing,
                      map_file |-> r.map_file]
    /\ succ' = 0
    /\ UNCHANGED <<src, mapDirs>>

HandWrite(q, doc) ==
    /\ FileAt(map, q) # Some(doc)
    /\ map' = (q :> doc) @@ map
    /\ Edited
    /\ UNCHANGED <<src, mapDirs>>

\* a person replaces the description under a header of ops.md
EditDescription(i) ==
    /\ OpsDoc \in DOMAIN map
    /\ i \in 3..Len(map[OpsDoc])
    /\ HeaderMatch(map[OpsDoc][i - 2]).matched
    /\ map[OpsDoc][i] # HumanProse
    /\ map' = [map EXCEPT ![OpsDoc] = [@ EXCEPT ![i] = HumanProse]]
    /\ Edited
    /\ UNCHANGED <<src, mapDirs>>

NextDiffer ==
    \/ \E q \in {OpsDoc, CoreDoc} : ParseExistingMap(q)
    \/ \E f \in DifferFiles : WriteMapFile(f)
    \/ \E q \in {OpsDoc, CoreDoc} : \E doc \in HandDocs(q) : HandWrite(q, doc)
    \/ \E i \in 1..MaxDocLines : EditDescription(i)
    \/ \E line \in DivideLines, doc \in Docs : AddDivide(line, doc)
    \/ RemoveDivide
    \/ \E line \in DivideLines : MoveDivide(line)

SpecDiffer == InitDiffer /\ [][NextDiffer]_vars

\* C22: in the mapping parse_existing_map returned, the entry of every
\* symbol name is the one of the occurrence of that name (header, list item
\* or table row) that comes last in the file.
C22_LastOccurrenceWins ==
    (last.cmd = "parse" /\ ~IsNone(last.parsed)) =>
        LET lines == map[last.map_path]
            Occurrence(i) == IF HeaderMatch(lines[i]).matched THEN HeaderMatch(lines[i])
                             ELSE IF MethodMatch(lines[i]).matched THEN MethodMatch(lines[i])
                             ELSE TableMatch(lines[i])
            occurrences == {i \in DOMAIN lines : Occurrence(i).matched}
        IN  /\ DOMAIN Val(last.parsed).sections = {Occurrence(i).name : i \in occurrences}
            /\ \A i \in occurrences :
                  (\A j \in occurrences : Occurrence(j).name = Occurrence(i).name => j <= i)
                     => Val(last.parsed).sections[Occurrence(i).name].line_number
                           = Occurrence(i).line_number

\* C23: when the MapFile that merge_maps built from the extractor's symbols
\* has distinct symbol names and descriptions of one line, parsing the text
\* render_map_file wrote gives every section its description, flag and line
\* number back, and the file description.
C23_RoundTripThroughMarkdown ==
    (/\ last.cmd = "write"
     /\ \A i, j \in DOMAIN last.map_file.sections :
           last.map_file.sections[i].symbol_name = last.map_file.sections[j].symbol_name
              => i = j
     /\ \A i \in DOMAIN last.map_file.sections :
           "\n" \notin Range(last.map_file.sections[i].description)
     /\ "\n" \notin Range(last.map_file.file_description)) =>
        LET parsed == Val(parse_existing_map(map, last.map_path))
        IN  /\ parsed.file_description = last.map_file.file_description
            /\ \A i \in DOMAIN last.map_file.sections :
                  LET sec == last.map_file.sections[i]
                  IN  /\ sec.symbol_name \in DOMAIN parsed.sections
                      /\ parsed.sections[sec.symbol_name].description = sec.description
                      /\ parsed.sections[sec.symbol_name].is_placeholder = sec.is_placeholder
                      /\ parsed.sections[sec.symbol_name].line_number = sec.line_number

\* C28: in a module with two symbols of one name (the method add of
\* Calculator and the function add), parse_existing_map followed by
\* merge_maps gives every symbol the description the document stored under
\* its name at its line.
C28_DescriptionsPerSymbol ==
    (/\ last.cmd = "write" /\ ~IsNone(last.before)
     /\ \E i, j \in DOMAIN last.map_file.sections :
           /\ i # j
           /\ last.map_file.sections[i].symbol_name = last.map_file.sections[j].symbol_name) =>
        \A i \in DOMAIN last.map_file.sections :
            \A stored \in SectionStores(Val(last.before)) :
                (/\ stored.name = last.map_file.sections[i].symbol_name
                 /\ stored.line_number = last.map_file.sections[i].line_number)
                    => last.map_file.sections[i].description = stored.description

(***************************************************************************)
(* renderer.py: compute_relative_path over absolute paths of files.        *)
(***************************************************************************)
MaxDepth == 3

\* text.split(sep)
SplitOn(text, sep) ==
    LET cuts == <<0>> \o Ascending({k \in DOMAIN text : text[k] = sep}) \o <<Len(text) + 1>>
    IN  [n \in 1..(Len(cuts) - 1) |-> SubSeq(text, cuts[n] + 1, cuts[n + 1] - 1)]

PathNames == {"docs", "src", "map"}

\* the absolute paths of at most MaxDepth components below the root
AbsolutePaths ==
    UNION {{<<"/">> \o p : p \in [1..n -> PathNames]} : n \in 1..MaxDepth}

InitPaths ==
    /\ src = <<>>
    /\ map = <<>>
    /\ mapDirs = {}
    /\ last = Idle
    /\ succ = 0

\* compute_relative_path(from_map, to_src) for two files: neither path is a
\* directory on the way to the other
ComputeRelativePath(from_map, to_src) ==
    /\ ~StartsWith(from_map, to_src)
    /\ ~StartsWith(to_src, from_map)
    /\ last' = [cmd |-> "relative", from_map |-> from_map, to_src |-> to_src,
                rel |-> Join(compute_relative_path(from_map, to_src))]
    /\ UNCHANGED <<src, map, mapDirs, succ>>

NextPaths == \E from_map, to_src \in AbsolutePaths : ComputeRelativePath(from_map, to_src)

SpecPaths == InitPaths /\ [][NextPaths]_vars

\* C24: the text compute_relative_path returns is, between its "/", some
\* ".." segments followed by the components of the source path below the
\* deepest common ancestor of the map file's directory and the source file,
\* and joining it onto the map file's directory and normalising gives the
\* source path.
C24_RelativePathLeadsToSource ==
    last.cmd = "relative" =>
        LET directory == Parent(last.from_map)
            segments == SplitOn(last.rel, "/")
            ancestor == CHOOSE n \in 0..Len(directory) :
                           /\ StartsWith(last.to_src, SubSeq(directory, 1, n))
                           /\ \A m \in (n + 1)..Len(directory) :
                                 ~StartsWith(last.to_src, SubSeq(directory, 1, m))
            ups == Cardinality({i \in DOMAIN segments : segments[i] = <<"..">>})
        IN  /\ \A i \in 1..ups : segments[i] = <<"..">>
            /\ ups = Len(directory) - ancestor
            /\ [i \in 1..(Len(segments) - ups) |-> segments[ups + i][1]]
                  = SubSeq(last.to_src, ancestor + 1, Len(last.to_src))
            /\ Normalize(directory, PathParts(last.rel)) = last.to_src

\* C24 witness: the source file is reached by climbing out of the map
\* file's directory and descending more than one component.
C24_ClimbsAndDescends ==
    /\ last.cmd = "relative"
    /\ Len(last.rel) >= 5
    /\ last.rel[1] = ".."
    /\ last.rel[Len(last.rel)] # ".."
    /\ last.rel[Len(last.rel) - 2] # ".."

(***************************************************************************)
(* Sources deleted between two runs of generate.                           *)
(***************************************************************************)
\* the module documents of the map before the run whose source file is gone
Orphaned ==
    {p \in DOMAIN last.preMap :
        /\ Len(p) = 3
        /\ p[1] = "modules"
        /\ \A f \in DOMAIN src : MdName(Stem(f)) # p[3]}

\* C25: a generate run that finds the module document of a deleted source
\* file lists the document in report.deleted_files and leaves it on disk as
\* it was.
C25_OrphanReportedAndKept ==
    GenRan =>
        \A p \in Orphaned :
            /\ p \in Range(last.report.deleted_files)
            /\ p \in DOMAIN map
            /\ map[p] = last.preMap[p]

(***************************************************************************)
(* meeting_notes_lib/db.py: MeetingNotesDB.  The directory of the database *)
(* is the file system `map`: meetings.jsonl and sync.jsonl are sequences   *)
(* of lines, a line the sequence of the <<key, value>> pairs json.dumps    *)
(* writes, index.json the snapshot _save_index wrote last.  `src` maps     *)
(* every MeetingNotesDB instance to its memory, `succ` counts the records  *)
(* appended so far and numbers the record ids, `last` is the call that     *)
(* just returned.  A record is a function from keys to values.             *)
(***************************************************************************)
MaxRecords == 4

CURRENT_VERSION == 1

MeetingsFile == <<"meetings.jsonl">>

SyncFile == <<"sync.jsonl">>

IndexFile == <<"index.json">>

\* the stable ids and tag names callers pass: extract_stable_id gives "" for
\* an event with no id
StableIds == {"", "m1"}

TagNames == {"", "t1"}

SyncFields == {"last_calendar_check", "last_email_check"}

\* record.get(key, default)
Get(record, key, default) == IF key \in DOMAIN record THEN record[key] ELSE default

\* json.dumps(record): the pairs in the order the keys were inserted
KeyOrder == <<"type", "version", "id", "stable_id", "operation", "data", "timestamp">>

Dumps(record) ==
    LET keys == SelectSeq(KeyOrder, LAMBDA k : k \in DOMAIN record)
    IN  [n \in DOMAIN keys |-> <<keys[n], record[keys[n]]>>]

\* json.loads(line)
Loads(line) ==
    [k \in {line[n][1] : n \in DOMAIN line} |->
        line[CHOOSE n \in DOMAIN line : line[n][1] = k][2]]

\* the records _iter_jsonl yields: none for a file that does not exist
_iter_jsonl(fs, file_path) ==
    IF file_path \in DOMAIN fs
    THEN [n \in DOMAIN fs[file_path] |-> Loads(fs[file_path][n])]
    ELSE <<>>

Without(index, key) == [k \in DOMAIN index \ {key} |-> index[k]]

\* the loop of _rebuild_index over meetings.jsonl, for the index of one type
RECURSIVE Replay(_, _, _)
Replay(index, records, record_type) ==
    IF records = <<>> THEN index
    ELSE LET record == Head(records)
             operation == Get(record, "operation", "upsert")
             stable_id == Get(record, "stable_id", "")
         IN  Replay(IF Get(record, "type", "") # record_type THEN index
                    ELSE IF operation = "delete" /\ stable_id \in DOMAIN index
                    THEN Without(index, stable_id)
                    ELSE IF stable_id # "" THEN (stable_id :> record) @@ index
                    ELSE index,
                    Tail(records), record_type)

\* the loop of _rebuild_index over sync.jsonl: the latest record wins
RECURSIVE ReplaySync(_, _)
ReplaySync(sync_state, records) ==
    IF records = <<>> THEN sync_state
    ELSE ReplaySync(IF Get(Head(records), "type", "") = "sync_state"
                    THEN Head(records) ELSE sync_state, Tail(records))

\* the memory of an instance after _rebuild_index
_rebuild_index(fs) ==
    [initialized |-> TRUE,
     meetings |-> Replay(<<>>, _iter_jsonl(fs, MeetingsFile), "meeting"),
     patterns |-> Replay(<<>>, _iter_jsonl(fs, MeetingsFile), "pattern"),
     ignored |-> Replay(<<>>, _iter_jsonl(fs, MeetingsFile), "ignored"),
     tags |-> Replay(<<>>, _iter_jsonl(fs, MeetingsFile), "tag"),
     sync_state |-> ReplaySync(<<>>, _iter_jsonl(fs, SyncFile))]

\* __init__
NewInstance ==
    [initialized |-> FALSE, meetings |-> <<>>, patterns |-> <<>>, ignored |-> <<>>,
     tags |-> <<>>, sync_state |-> <<>>]

\* _save_index: the snapshot written to index.json
_save_index(fs, mem) ==
    (IndexFile :> [version |-> CURRENT_VERSION, meetings |-> mem.meetings,
                   patterns |-> mem.patterns, ignored |-> mem.ignored,
                   tags |-> mem.tags, sync_state |-> mem.sync_state]) @@ fs

\* Path.touch(exist_ok=True)
Touch(fs, file_path) == IF file_path \in DOMAIN fs THEN fs ELSE (file_path :> <<>>) @@ fs

\* initialize: [fs, mem] after the files are touched and the index rebuilt
initialize(fs) ==
    LET touched == Touch(Touch(fs, MeetingsFile), SyncFile)
    IN  [fs |-> _save_index(touched, _rebuild_index(touched)),
         mem |-> _rebuild_index(touched)]

\* _ensure_initialized
_ensure_initialized(fs, mem) ==
    IF mem.initialized THEN [fs |-> fs, mem |-> mem] ELSE initialize(fs)

\* _append: the record with its metadata, and the file with the line added
Stamped(record) ==
    (IF "timestamp" \in DOMAIN record THEN <<>> ELSE ("timestamp" :> "now"))
       @@ (IF "version" \in DOMAIN record THEN <<>> ELSE ("version" :> CURRENT_VERSION))
       @@ record

_append(fs, file_path, record) ==
    (file_path :> Append(fs[file_path], Dumps(Stamped(record)))) @@ fs

\* the record an upsert builds
UpsertRecord(record_type, prefix, n, stable_id, data) ==
    [type |-> record_type, version |-> CURRENT_VERSION, id |-> <<prefix, n>>,
     stable_id |-> stable_id, operation |-> "upsert", data |-> data]

DeleteRecord(record_type, prefix, n, stable_id) ==
    [type |-> record_type, version |-> CURRENT_VERSION, id |-> <<prefix, n>>,
     stable_id |-> stable_id, operation |-> "delete"]

\* an upsert of one index: [fs, mem] after the append, the assignment to the
\* index and _save_index
Upserted(fs, mem, index_name, record) ==
    LET e == _ensure_initialized(fs, mem)
        stored == [e.mem EXCEPT ![index_name] =
                      (record.stable_id :> Stamped(record)) @@ e.mem[index_name]]
    IN  [fs |-> _save_index(_append(e.fs, MeetingsFile, record), stored), mem |-> stored]

\* a delete of one index: nothing is written for an id the index does not hold
Deleted(fs, mem, index_name, record) ==
    LET e == _ensure_initialized(fs, mem)
        stored == [e.mem EXCEPT ![index_name] = Without(e.mem[index_name], record.stable_id)]
    IN  IF record.stable_id \notin DOMAIN e.mem[index_name] THEN e
        ELSE [fs |-> _save_index(_append(e.fs, MeetingsFile, record), stored),
              mem |-> stored]

\* the number of lines of the two logs
Appended(fs) ==
    (IF MeetingsFile \in DOMAIN fs THEN Len(fs[MeetingsFile]) ELSE 0)
       + (IF SyncFile \in DOMAIN fs THEN Len(fs[SyncFile]) ELSE 0)

\* the call of instance i returns with the directory and the memory r holds
Returns(i, cmd, r) ==
    /\ map' = r.fs
    /\ src' = [src EXCEPT ![i] = r.mem]
    /\ last' = [cmd |-> cmd, instance |-> i]
    /\ succ' = succ + (Appended(r.fs) - Appended(map))
    /\ UNCHANGED mapDirs

Initialize(i) == \E r \in {initialize(map)} : Returns(i, "initialize", r)

UpsertMeeting(i, stable_id, data) ==
    /\ succ < MaxRecords
    /\ \E r \in {Upserted(map, src[i], "meetings",
                          UpsertRecord("meeting", "mtg", succ, stable_id, data))} :
          Returns(i, "upsert_meeting", r)

DeleteMeeting(i, stable_id) ==
    /\ succ < MaxRecords
    /\ \E r \in {Deleted(map, src[i], "meetings",
                         DeleteRecord("meeting", "mtg", succ, stable_id))} :
          Returns(i, "delete_meeting", r)

UpsertPattern(i, stable_id, data) ==
    /\ succ < MaxRecords
    /\ \E r \in {Upserted(map, src[i], "patterns",
                          UpsertRecord("pattern", "pat", succ, stable_id, data))} :
          Returns(i, "upsert_pattern", r)

IgnoreMeeting(i, stable_id, reason) ==
    /\ succ < MaxRecords
    /\ \E r \in {Upserted(map, src[i], "ignored",
                          UpsertRecord("ignored", "ign", succ, stable_id,
                                       [reason |-> reason, ignored_at |-> "now"]))} :
          Returns(i, "ignore_meeting", r)

UnignoreMeeting(i, stable_id) ==
    /\ succ < MaxRecords
    /\ \E r \in {Deleted(map, src[i], "ignored",
                         DeleteRecord("ignored", "ign", succ, stable_id))} :
          Returns(i, "unignore_meeting", r)

\* upsert_tag: the data with its name and time stamps, then the upsert
upsert_tag(fs, mem, n, name, data) ==
    LET e == _ensure_initialized(fs, mem)
        named == ("name" :> name) @@ data
        created == IF name \notin DOMAIN e.mem.tags
                   THEN ("created_at" :> "now") @@ named ELSE named
        updated == ("updated_at" :> "now") @@ created
    IN  Upserted(e.fs, e.mem, "tags", UpsertRecord("tag", "tag", n, name, updated))

delete_tag(fs, mem, n, name) == Deleted(fs, mem, "tags", DeleteRecord("tag", "tag", n, name))

UpsertTag(i, name, data) ==
    /\ succ < MaxRecords
    /\ \E r \in {upsert_tag(map, src[i], succ, name, data)} : Returns(i, "upsert_tag", r)

DeleteTag(i, name) ==
    /\ succ < MaxRecords
    /\ \E r \in {delete_tag(map, src[i], succ, name)} : Returns(i, "delete_tag", r)

\* rename_tag: upsert_tag under the new name with the old data, delete_tag
RenameTag(i, old_name, new_name) ==
    /\ succ + 1 < MaxRecords
    /\ \E e \in {_ensure_initialized(map, src[i])} :
          IF old_name \notin DOMAIN e.mem.tags THEN Returns(i, "rename_tag", e)
          ELSE \E u \in {upsert_tag(e.fs, e.mem, succ, new_name,
                                    ("name" :> new_name) @@ e.mem.tags[old_name].data)} :
               \E r \in {delete_tag(u.fs, u.mem, succ + 1, old_name)} :
                   Returns(i, "rename_tag", r)

\* update_sync_state(field=value)
UpdateSyncState(i, field) ==
    /\ succ < MaxRecords
    /\ \E e \in {_ensure_initialized(map, src[i])} :
       \E record \in {[type |-> "sync_state", version |-> CURRENT_VERSION,
                       id |-> <<"sync", succ>>,
                       data |-> (field :> "now") @@ Get(e.mem.sync_state, "data", <<>>)]} :
       \E stored \in {[e.mem EXCEPT !.sync_state = Stamped(record)]} :
          Returns(i, "update_sync_state",
                  [fs |-> _save_index(_append(e.fs, SyncFile, record), stored),
                   mem |-> stored])

\* index.values(), in the order the records were made
Values(index) ==
    LET numbers == Ascending({index[k].id[2] : k \in DOMAIN index})
    IN  [n \in DOMAIN numbers |->
            index[CHOOSE k \in DOMAIN index : index[k].id[2] = numbers[n]]]

\* compact: both logs rewritten from the memory of the instance
Compact(i) ==
    \E e \in {_ensure_initialized(map, src[i])} :
       /\ map' = (MeetingsFile :>
                     [n \in DOMAIN (Values(e.mem.meetings) \o Values(e.mem.patterns)
                                       \o Values(e.mem.ignored) \o Values(e.mem.tags)) |->
                         Dumps((Values(e.mem.meetings) \o Values(e.mem.patterns)
                                   \o Values(e.mem.ignored) \o Values(e.mem.tags))[n])])
                  @@ (SyncFile :> IF e.mem.sync_state = <<>> THEN <<>>
                                   ELSE <<Dumps(e.mem.sync_state)>>)
                  @@ e.fs
       /\ src' = [src EXCEPT ![i] = e.mem]
       /\ last' = [cmd |-> "compact", instance |-> i]
       /\ UNCHANGED <<mapDirs, succ>>

DataValues == {[title |-> "Standup"]}

\* every operation of instance i
Operation(i) ==
    \/ Initialize(i)
    \/ \E stable_id \in StableIds, data \in DataValues : UpsertMeeting(i, stable_id, data)
    \/ \E stable_id \in StableIds : DeleteMeeting(i, stable_id)
    \/ \E stable_id \in StableIds, data \in DataValues : UpsertPattern(i, stable_id, data)
    \/ \E stable_id \in StableIds : IgnoreMeeting(i, stable_id, "noise")
    \/ \E stable_id \in StableIds : UnignoreMeeting(i, stable_id)
    \/ \E name \in TagNames : UpsertTag(i, name, [color |-> "red"])
    \/ \E name \in TagNames : DeleteTag(i, name)
    \/ \E old_name, new_name \in TagNames : RenameTag(i, old_name, new_name)
    \/ \E field \in SyncFields : UpdateSyncState(i, field)
    \/ Compact(i)

\* one instance, the only writer of its directory
InitSingle ==
    /\ src = <<NewInstance>>
    /\ map = <<>>
    /\ mapDirs = {}
    /\ last = Idle
    /\ succ = 0

NextSingle == Operation(1)

SpecSingle == InitSingle /\ [][NextSingle]_vars

\* two instances opened on one directory
InitShared ==
    /\ src = <<NewInstance, NewInstance>>
    /\ map = <<>>
    /\ mapDirs = {}
    /\ last = Idle
    /\ succ = 0

NextShared ==
    \E i \in 1..2 :
        \/ Initialize(i)
        \/ \E stable_id \in StableIds, data \in DataValues : UpsertMeeting(i, stable_id, data)
        \/ \E stable_id \in StableIds : DeleteMeeting(i, stable_id)
        \/ \E stable_id \in StableIds : IgnoreMeeting(i, stable_id, "noise")
        \/ \E stable_id \in StableIds : UnignoreMeeting(i, stable_id)

SpecShared == InitShared /\ [][NextShared]_vars

\* the last record of the log with this type and stable id is a delete
LastIsDelete(fs, record_type, stable_id) ==
    LET records == _iter_jsonl(fs, MeetingsFile)
        own == {n \in DOMAIN records : /\ Get(records[n], "type", "") = record_type
                                       /\ Get(records[n], "stable_id", "") = stable_id}
    IN  /\ own # {}
        /\ \E n \in own : /\ \A m \in own : m <= n
                          /\ Get(records[n], "operation", "upsert") = "delete"

\* C26: after an instance rebuilt its index from the log, an id whose latest
\* record is a delete is in no index of that type, and no record an index
\* holds is a delete record.
C26_DeletesLeaveTheIndex ==
    last.cmd = "initialize" =>
        \A name \in {"meetings", "ignored"} :
            LET index == src[last.instance][name]
                record_type == IF name = "meetings" THEN "meeting" ELSE "ignored"
            IN  /\ \A stable_id \in StableIds :
                      LastIsDelete(map, record_type, stable_id) => stable_id \notin DOMAIN index
                /\ \A k \in DOMAIN index : Get(index[k], "operation", "upsert") # "delete"

\* C30: whenever a call of the only writer has returned, its indexes are the
\* ones _rebuild_index computes from the two logs on disk.
C30_MemoryIsReplayOfLogs ==
    (last.cmd # "none" /\ src[1].initialized) => src[1] = _rebuild_index(map)

(***************************************************************************)
(* The generator and the validator on one map directory, and the two       *)
(* symbol listings on one source file.                                     *)
(***************************************************************************)
\* C27: right after a generate run that wrote the map, validate_map reports
\* no structure, broken_link or broken_symbol error for it.
C27_GeneratedMapValidates ==
    (GenRan /\ ~last.dry_run) =>
        \A i \in DOMAIN validate_map(src, map, mapDirs) :
            validate_map(src, map, mapDirs)[i].error_type
               \notin {"structure", "broken_link", "broken_symbol"}

\* C29: every symbol extract_symbols returns for a source file is found by
\* symbol_exists in that file and by symbol_at_line at its line with
\* tolerance 0.
C29_ValidatorFindsExtractedSymbols ==
    \A f \in DOMAIN src :
        \A i \in DOMAIN extract_symbols(Some(src[f])) :
            LET sym == extract_symbols(Some(src[f]))[i]
            IN  /\ symbol_exists(Some(src[f]), sym.name)
                /\ symbol_at_line(Some(src[f]), sym.name, sym.line, 0)

====
